---- MODULE Spec2Model ----
(***************************************************************************)
(* Trial-timing engine of the EEG motor-imagery collector: the three       *)
(* frame-driven paradigms (ContinuousMotionMode, the trial-based           *)
(* ContinuousMotionMode and PeriodicMotionMode), their requestAnimationFrame*)
(* loop, the start / pause / reset handlers and the sample logger.         *)
(*                                                                         *)
(* Time is in milliseconds.  A joint angle is held in thousandths: a       *)
(* library angle 0.85 is 850, and a result that IEEE-754 double arithmetic *)
(* leaves u units in the last place away from a library angle is that      *)
(* angle plus u (849 is 0.85 less one unit in the last place).  An angle    *)
(* interpolated strictly between two poses is rounded down to a            *)
(* thousandth.  A progress fraction is an exact rational <<n, d>>.         *)
(***************************************************************************)
EXTENDS Integers, Sequences, FiniteSets, TLC

VARIABLES
    mode,                 \* which component App mounts
    settings,             \* the component's settings state
    enabledPoses,         \* the pose names enabled for sequence generation
    isRunning, isPaused, sessionStarted,
    sequence,             \* poseSequenceRef / trialSequenceRef
    trialIndex,           \* currentPoseIndexRef / currentTrialIndexRef (0-based)
    phase,                \* phaseRef
    timeInPhase,          \* the timeInPhase state shown by the component
    timeInPhaseRef,       \* timeInPhaseRef, the accumulator animate works on
    currentJointAngles,   \* currentJointAnglesRef
    targetJointAngles,    \* targetJointAnglesRef
    previousPose,         \* previousPoseRef
    isMovingToTarget, beatCount, lastBeatTime,
    transitionStartTime, transitionStartPose,
    lastTimestamp, sessionStartTime,
    dataLog,              \* the dataLog state, oldest record first
    animationFrame,       \* TRUE while a requestAnimationFrame callback is pending
    alerts,               \* how many times completeSession has raised its alert
    clock,                \* the host's high-resolution time
    timeLeft,             \* ClassificationMode: the timeLeft state (a double)
    isAdvancing,          \* ClassificationMode: isAdvancingRef
    advancePending,       \* ClassificationMode: the setTimeout(advancePhase, 0) calls pending
    intervalRef           \* ClassificationMode: TRUE while the 100 ms interval is set

vars == <<mode, settings, enabledPoses, isRunning, isPaused, sessionStarted,
          sequence, trialIndex, phase, timeInPhase, timeInPhaseRef,
          currentJointAngles, targetJointAngles, previousPose,
          isMovingToTarget, beatCount, lastBeatTime, transitionStartTime,
          transitionStartPose, lastTimestamp, sessionStartTime, dataLog,
          animationFrame, alerts, clock,
          timeLeft, isAdvancing, advancePending, intervalRef>>

(***************************************************************************)
(* Bounds of the model.                                                    *)
(***************************************************************************)
\* the host clock is followed up to this time
MaxTime == 2000

\* ... and up to this time in a session that is only started and run
MaxRunTime == 3500

\* ... and up to this time in the session with the default trial durations
MaxScenarioTime == 16000

\* the time between two frame callbacks of that session
ScenarioDeltas == {100}

\* the time the host lets pass between two frame callbacks
Deltas == {0, 250, 500, 1000}

\* the time the host lets pass while no frame callback is pending
IdleSpans == {500}

\* a ref that holds null (timestamps are never negative)
Null == -1

\* JavaScript's undefined, where a pose name is expected
Undefined == "undefined"

\* JavaScript truthiness of a timestamp ref: null and 0 are falsy
Truthy(x) == x # Null /\ x # 0

Min(a, b) == IF a <= b THEN a ELSE b
Max(a, b) == IF a >= b THEN a ELSE b

(***************************************************************************)
(* Pose library (handPoses.js).                                            *)
(***************************************************************************)
Pose(t, i, p) == [thumb |-> t, index |-> i, pinky |-> p]

\* the library writes its angles in hundredths
ThumbJoints(a, b, c) == [cmc |-> 10 * a, mcp |-> 10 * b, ip |-> 10 * c]

FingerJoints(a, b, c) == [mcp |-> 10 * a, pip |-> 10 * b, dip |-> 10 * c]

HAND_POSES ==
    [neutral |-> Pose(ThumbJoints(10, 15, 10), FingerJoints(15, 15, 10), FingerJoints(20, 20, 15)),
     open |-> Pose(ThumbJoints(30, 0, 0), FingerJoints(0, 0, 0), FingerJoints(0, 0, 0)),
     closedGrasp |-> Pose(ThumbJoints(70, 80, 70), FingerJoints(85, 90, 80), FingerJoints(90, 95, 85)),
     thumbIndexPinch |-> Pose(ThumbJoints(85, 70, 50), FingerJoints(65, 70, 55), FingerJoints(30, 35, 25)),
     indexExtension |-> Pose(ThumbJoints(40, 60, 50), FingerJoints(0, 0, 0), FingerJoints(80, 85, 75)),
     pinkyExtension |-> Pose(ThumbJoints(40, 60, 50), FingerJoints(80, 85, 75), FingerJoints(0, 0, 0)),
     indexPinkySpan |-> Pose(ThumbJoints(50, 40, 30), FingerJoints(0, 0, 0), FingerJoints(0, 0, 0)),
     thumbOpposition |-> Pose(ThumbJoints(90, 30, 20), FingerJoints(20, 25, 15), FingerJoints(25, 30, 20)),
     thumbPinkyPinch |-> Pose(ThumbJoints(100, 75, 60), FingerJoints(25, 30, 20), FingerJoints(70, 75, 60)),
     threeFingerPinch |-> Pose(ThumbJoints(90, 70, 55), FingerJoints(60, 65, 50), FingerJoints(65, 70, 55)),
     indexHook |-> Pose(ThumbJoints(20, 20, 15), FingerJoints(10, 90, 85), FingerJoints(25, 30, 20)),
     pinkyHook |-> Pose(ThumbJoints(20, 20, 15), FingerJoints(20, 25, 15), FingerJoints(10, 90, 85))]

\* Object.keys(HAND_POSES), in insertion order
POSE_NAMES ==
    <<"neutral", "open", "closedGrasp", "thumbIndexPinch", "indexExtension",
      "pinkyExtension", "indexPinkySpan", "thumbOpposition", "thumbPinkyPinch",
      "threeFingerPinch", "indexHook", "pinkyHook">>

getPose(poseName) ==
    IF poseName \in DOMAIN HAND_POSES THEN HAND_POSES[poseName] ELSE HAND_POSES.neutral

FINGERS == {"thumb", "index", "pinky"}

RECURSIVE SumOver(_, _)
SumOver(f, S) ==
    IF S = {} THEN 0
    ELSE LET x == CHOOSE y \in S : TRUE IN f[x] + SumOver(f, S \ {x})

\* the square of poseSynergyDistance, in squared thousandths (the square root is
\* increasing, so ranking by the square ranks by the distance)
poseSynergyDistanceSq(pose1, pose2) ==
    SumOver([finger \in FINGERS |->
                LET joints1 == pose1[finger]
                    joints2 == pose2[finger]
                    shared == {j \in DOMAIN joints1 : j \in DOMAIN joints2}
                IN  SumOver([j \in shared |-> (joints1[j] - joints2[j]) * (joints1[j] - joints2[j])],
                            shared)],
            FINGERS)

(***************************************************************************)
(* Interpolation (interpolation.js).                                       *)
(***************************************************************************)
RECURSIVE GCD(_, _)
GCD(a, b) == IF b = 0 THEN a ELSE GCD(b, a % b)

\* the fraction n/d in lowest terms
Frac(n, d) == LET g == GCD(n, d) IN <<n \div g, d \div g>>

\* a variant without the cap at 1
ProgressUncapped(time, duration) == Frac(time, duration)

\* Math.min(time / duration, 1)
Progress(time, duration) ==
    IF time >= duration THEN <<1, 1>> ELSE Frac(time, duration)

\* <<a, b, u>>: in double arithmetic a + (b - a) * 1 is b plus u units in the
\* last place, for every a the library or such a sum can give and every
\* library angle b (the pairs left out give b itself)
LerpEndErrors ==
    {<<200, 850, -1>>, <<200, 900, -1>>, <<300, 850, 1>>, <<300, 900, 1>>,
     <<400, 100, -2>>, <<400, 150, 1>>, <<500, 100, -2>>, <<500, 150, 1>>,
     <<550, 100, -2>>, <<550, 150, 1>>, <<600, 100, -2>>, <<600, 150, 1>>,
     <<650, 100, -2>>, <<650, 150, 1>>, <<700, 100, -2>>, <<700, 150, 1>>,
     <<750, 100, -2>>, <<750, 150, 1>>, <<750, 200, -2>>, <<800, 100, -2>>,
     <<800, 150, 1>>, <<800, 200, -2>>, <<800, 300, 1>>, <<849, 100, -2>>,
     <<849, 150, 1>>, <<849, 200, -2>>, <<849, 300, 1>>, <<850, 100, -2>>,
     <<850, 150, 1>>, <<850, 200, 2>>, <<850, 300, -1>>, <<851, 100, -2>>,
     <<851, 150, 1>>, <<851, 200, -2>>, <<851, 300, 1>>, <<899, 100, -2>>,
     <<899, 150, 1>>, <<899, 200, -2>>, <<899, 300, 1>>, <<900, 100, -2>>,
     <<900, 150, 1>>, <<900, 200, 2>>, <<900, 300, -1>>, <<901, 100, -2>>,
     <<901, 150, 1>>, <<901, 200, -2>>, <<901, 300, 1>>, <<950, 100, -2>>,
     <<950, 150, 1>>, <<950, 200, -2>>, <<950, 300, 1>>, <<1000, 100, -2>>,
     <<1000, 150, 1>>, <<1000, 200, -2>>, <<1000, 300, 1>>}

\* a + (b - a) * 1 in double arithmetic
LerpAtOne(a, b) ==
    LET errors == {e \in LerpEndErrors : e[1] = a /\ e[2] = b}
    IN  IF errors = {} THEN b ELSE b + (CHOOSE e \in errors : TRUE)[3]

\* a variant whose sum at t = 1 is exact
lerpExact(a, b, s) == a + ((b - a) * s[1]) \div s[2]

\* lerp = a + (b - a) * t, with t = s[1] / s[2]; at t = 0 the sum is a + 0
lerp(a, b, s) ==
    IF s[1] = s[2] THEN LerpAtOne(a, b)
    ELSE a + ((b - a) * s[1]) \div s[2]

minimumJerk(t) ==
    LET n == t[1]
        d == t[2]
        t3n == n * n * n
        t4n == t3n * n
        t5n == t4n * n
    IN  <<10 * t3n * d * d - 15 * t4n * d + 6 * t5n, d * d * d * d * d>>

easeInOut(t) ==
    LET n == t[1]
        d == t[2]
    IN  IF 2 * n < d
        THEN <<2 * n * n, d * d>>
        ELSE <<2 * d * d - (2 * d - 2 * n) * (2 * d - 2 * n), 2 * d * d>>

interpolateJoints(joints1, joints2, t, interpolationType) ==
    LET smoothT == CASE interpolationType = "linear" -> t
                     [] interpolationType = "easeInOut" -> easeInOut(t)
                     [] OTHER -> minimumJerk(t)
    IN  [joint \in {j \in DOMAIN joints1 : j \in DOMAIN joints2} |->
            lerp(joints1[joint], joints2[joint], smoothT)]

interpolatePoses(pose1, pose2, t, interpolationType) ==
    [thumb |-> interpolateJoints(pose1.thumb, pose2.thumb, t, interpolationType),
     index |-> interpolateJoints(pose1.index, pose2.index, t, interpolationType),
     pinky |-> interpolateJoints(pose1.pinky, pose2.pinky, t, interpolationType)]

\* poseToLabeledObject: the fixed nine-column ordering of a logged pose
poseToLabeledObject(pose) ==
    [thumb_cmc |-> pose.thumb.cmc, thumb_mcp |-> pose.thumb.mcp, thumb_ip |-> pose.thumb.ip,
     index_mcp |-> pose.index.mcp, index_pip |-> pose.index.pip, index_dip |-> pose.index.dip,
     pinky_mcp |-> pose.pinky.mcp, pinky_pip |-> pose.pinky.pip, pinky_dip |-> pose.pinky.dip]

(***************************************************************************)
(* Sequence generators.  Math.random is a free choice, so a generator is   *)
(* the set of the sequences it can return.                                 *)
(***************************************************************************)
Last(s) == s[Len(s)]

\* the distance matrix generatePoseSequence builds
distances ==
    [p1 \in DOMAIN HAND_POSES |->
        [p2 \in DOMAIN HAND_POSES |-> poseSynergyDistanceSq(HAND_POSES[p1], HAND_POSES[p2])]]

\* arr.filter(p => p !== x)
Without(arr, x) == SelectSeq(arr, LAMBDA p : p # x)

\* POSE_NAMES.filter(name => enabled[name])
EnabledOf(enabled) == SelectSeq(POSE_NAMES, LAMBDA name : name \in enabled)

\* candidates.sort((a, b) => distances[currentPose][a] - distances[currentPose][b]);
\* Array.prototype.sort is stable
SortByDistance(currentPose, candidates) ==
    LET k == Len(candidates)
        dist(i) == distances[currentPose][candidates[i]]
        rank(i) == Cardinality({j \in 1..k : dist(j) < dist(i) \/ (dist(j) = dist(i) /\ j < i)})
    IN  IF k <= 1 THEN candidates
        ELSE [r \in 1..k |-> candidates[CHOOSE i \in 1..k : rank(i) = r - 1]]

\* a variant whose far poses are the farther half
FarStartHalf(k) == k \div 2

\* Math.floor(candidates.length * 0.6)
FarStart(k) == (k * 6) \div 10

\* the poses one step of the nearest-neighbour walk can select after currentPose
WalkChoices(currentPose, poseNames, allowRepeats, occasionalLargeJump) ==
    LET candidates == SortByDistance(currentPose,
                          IF allowRepeats THEN poseNames ELSE Without(poseNames, currentPose))
        k == Len(candidates)
        farPoses == SubSeq(candidates, FarStart(k) + 1, k)
        nearPoses == SubSeq(candidates, 1, Min(k, Max(3, (k * 4) \div 10)))
        pick(poses) == IF Len(poses) = 0 THEN {Undefined} ELSE {poses[i] : i \in 1..Len(poses)}
    IN  pick(nearPoses) \cup (IF occasionalLargeJump /\ k > 3 THEN pick(farPoses) ELSE {})

RECURSIVE WalkFrom(_, _, _, _, _)
WalkFrom(seq, numPoses, poseNames, allowRepeats, occasionalLargeJump) ==
    IF Len(seq) >= numPoses THEN {seq}
    ELSE UNION {WalkFrom(Append(seq, p), numPoses, poseNames, allowRepeats, occasionalLargeJump) :
                    p \in WalkChoices(Last(seq), poseNames, allowRepeats, occasionalLargeJump)}

generatePoseSequence(numPoses, startPose, occasionalLargeJump, allowedPoses) ==
    LET poseNames == Without(allowedPoses, startPose)
    IN  IF Len(poseNames) = 0
        THEN {[i \in 1..Max(numPoses, 0) |-> startPose]}
        ELSE WalkFrom(<<startPose>>, numPoses, poseNames, FALSE, occasionalLargeJump)

\* the elements of an array, as a set
Elements(arr) == {arr[i] : i \in 1..Len(arr)}

\* the sequences of m different elements of a set
RECURSIVE Arrangements(_, _)
Arrangements(S, m) ==
    IF m = 0 THEN {<<>>}
    ELSE UNION {{<<x>> \o rest : rest \in Arrangements(S \ {x}, m - 1)} : x \in S}

\* the first m entries of the orders shuffle(pool) can return (every order is
\* possible); a block is enumerated only as far as the final slice keeps it
ShuffleHeads(pool, m) == Arrangements(Elements(pool), Min(m, Len(pool)))

\* variant: a block is appended as shuffled, without the boundary repair
BoundarySwapsNone(block, pool) == {block}

\* [block[0], block[swapIdx]] = [block[swapIdx], block[0]] for every swapIdx that
\* 1 + Math.floor(Math.random() * (block.length - 1)) can be, on the first
\* entries of a block of the pool; the entry swapped in is either one of the
\* head or one of the entries behind it.  In a block of one entry swapIdx is 1:
\* block[0] becomes undefined and block[1] the pose
BoundarySwaps(block, pool) ==
    IF Len(pool) = 1
    THEN {<<Undefined, block[1]>>}
    ELSE {[i \in 1..Len(block) |->
              IF i = 1 THEN block[j]
              ELSE IF i = j THEN block[1] ELSE block[i]] : j \in 2..Len(block)}
         \cup {[block EXCEPT ![1] = x] : x \in Elements(pool) \ Elements(block)}

RECURSIVE BlocksFrom(_, _, _)
BlocksFrom(seq, numTargets, pool) ==
    IF Len(seq) >= numTargets THEN {SubSeq(seq, 1, Max(numTargets, 0))}
    ELSE UNION {LET blocks == IF Len(seq) > 0 /\ block[1] = Last(seq)
                                THEN BoundarySwaps(block, pool) ELSE {block}
                IN  UNION {BlocksFrom(seq \o b, numTargets, pool) : b \in blocks} :
                    block \in ShuffleHeads(pool, numTargets - Len(seq))}

\* the balanced sequence of the trial-based component
generateBalancedSequence(numTargets, enabled) ==
    LET availablePoses == EnabledOf(enabled)
        pool == IF Len(availablePoses) > 0 THEN availablePoses ELSE POSE_NAMES
    IN  BlocksFrom(<<>>, numTargets, pool)

\* variant: the fallback is the whole library, the baseline pose included
generateTrialSequenceOfLibrary(numTrials, enabledPosesList) ==
    LET availablePoses == IF Len(enabledPosesList) > 0 THEN enabledPosesList ELSE POSE_NAMES
    IN  [1..Max(numTrials, 0) -> {availablePoses[i] : i \in 1..Len(availablePoses)}]

\* generateTrialSequence of the periodic component
generateTrialSequence(numTrials, enabledPosesList) ==
    LET availablePoses == IF Len(enabledPosesList) > 0 THEN enabledPosesList
                          ELSE Without(POSE_NAMES, "neutral")
    IN  [1..Max(numTrials, 0) -> {availablePoses[i] : i \in 1..Len(availablePoses)}]

\* variant: the baseline pose is not filtered out
getEnabledPoseNamesWithBaseline(enabled) == EnabledOf(enabled)

\* getEnabledPoseNames of the continuous and periodic components
getEnabledPoseNames(enabled) == Without(EnabledOf(enabled), "neutral")

\* the sequence the "initialize sequence" effect stores
InitialSequences(m, s, enabled) ==
    CASE m = "continuous" ->
            LET availablePoses == getEnabledPoseNames(enabled)
            IN  generatePoseSequence(s.numTargets, "neutral", TRUE,
                    IF Len(availablePoses) > 0 THEN availablePoses
                    ELSE Without(POSE_NAMES, "neutral"))
      [] m = "trial" -> generateBalancedSequence(s.numTargets, enabled)
      [] OTHER -> generateTrialSequence(s.numTrials, getEnabledPoseNames(enabled))

\* sequence[i] with a 0-based index; undefined past the end
At(seq, i) == IF i + 1 \in DOMAIN seq THEN seq[i + 1] ELSE Undefined

(***************************************************************************)
(* Settings.  A session runs with the settings entered before it starts.   *)
(***************************************************************************)
ContinuousSettings ==
    [restDuration |-> 500, transitionDuration |-> 750, numTargets |-> 2,
     interpolationType |-> "minimumJerk", showTargetHand |-> TRUE, logFrameRate |-> 2]

TrialSettings ==
    [preparationDuration |-> 500, executionDuration |-> 250, returnCueDuration |-> 250,
     restDuration |-> 500, numTargets |-> 2, interpolationType |-> "minimumJerk",
     showTargetHand |-> TRUE]

\* the durations the trial-based component starts with, for two targets
DefaultTrialSettings ==
    [preparationDuration |-> 1000, executionDuration |-> 4000, returnCueDuration |-> 500,
     restDuration |-> 2000, numTargets |-> 2, interpolationType |-> "minimumJerk",
     showTargetHand |-> TRUE]

\* frequency is in tenths of a hertz (the input's step is 0.1)
PeriodicSettings ==
    [prepDuration |-> 500, activeDuration |-> 1000, frequency |-> 20,
     transitionDuration |-> 300, numTrials |-> 2, interpolationType |-> "minimumJerk",
     showTargetHand |-> TRUE, logFrameRate |-> 2]

\* the periodic settings with a transition as short as one frame interval, so
\* that a transition is over before the next beat
PeriodicSettingsBrisk == [PeriodicSettings EXCEPT !.transitionDuration = 250]

InitialSettings(m) ==
    CASE m = "continuous" -> {ContinuousSettings}
      [] m = "trial" -> {TrialSettings}
      [] OTHER -> {PeriodicSettings, PeriodicSettingsBrisk}

InitialPools == {{"open", "closedGrasp"}}

\* beatInterval = 1000 / settings.frequency
beatInterval(s) == 10000 \div s.frequency

\* logInterval = 1000 / settings.logFrameRate
logInterval(s) == 1000 \div s.logFrameRate

PHASE_ORDER == <<"rest", "preparation", "execution", "returnCue">>

\* the phase ordering of each paradigm
PhaseOrder(m) ==
    CASE m = "continuous" -> <<"rest", "transition">>
      [] m = "trial" -> PHASE_ORDER
      [] m = "classification" -> <<"rest", "cue", "imagery">>
      [] OTHER -> <<"prep", "active">>

\* a variant that gives the rest phase the preparation duration and conversely
getPhaseDurationSwapped(m, s, phaseName) ==
    CASE m = "continuous" ->
            (IF phaseName = "rest" THEN s.restDuration ELSE s.transitionDuration)
      [] m = "trial" ->
            (CASE phaseName = "preparation" -> s.restDuration
               [] phaseName = "execution" -> s.executionDuration
               [] phaseName = "returnCue" -> s.returnCueDuration
               [] phaseName = "rest" -> s.preparationDuration
               [] OTHER -> 0)
      [] OTHER ->
            (IF phaseName = "prep" THEN s.prepDuration ELSE s.activeDuration)

\* currentPhaseDuration / getPhaseDuration
getPhaseDuration(m, s, phaseName) ==
    CASE m = "continuous" ->
            (IF phaseName = "rest" THEN s.restDuration ELSE s.transitionDuration)
      [] m = "trial" ->
            (CASE phaseName = "preparation" -> s.preparationDuration
               [] phaseName = "execution" -> s.executionDuration
               [] phaseName = "returnCue" -> s.returnCueDuration
               [] phaseName = "rest" -> s.restDuration
               [] OTHER -> 0)
      [] OTHER ->
            (IF phaseName = "prep" THEN s.prepDuration ELSE s.activeDuration)

(***************************************************************************)
(* Initial state: the component has mounted and its "initialize sequence"  *)
(* effect has run.                                                         *)
(***************************************************************************)
neutralPose == getPose("neutral")

\* variant: the first rest shows the pose of the second sequence entry
InitialCurrentPoseOfNext(m, seq) ==
    IF m = "continuous" THEN getPose(At(seq, 1)) ELSE neutralPose

\* the pose the "initialize sequence" effect shows before a session starts
InitialCurrentPose(m, seq) ==
    IF m = "continuous" THEN getPose(At(seq, 0)) ELSE neutralPose

\* the target the "initialize sequence" effect stores
InitialTargetPose(m, seq) ==
    IF m = "periodic" THEN neutralPose ELSE getPose(At(seq, 0))

\* the state of a mounted component of paradigm m with settings s
Mounted(m, s) ==
    /\ mode = m
    /\ settings = s
    /\ enabledPoses \in InitialPools
    /\ isRunning = FALSE
    /\ isPaused = FALSE
    /\ sessionStarted = FALSE
    /\ sequence \in InitialSequences(mode, settings, enabledPoses)
    /\ trialIndex = 0
    /\ phase = PhaseOrder(mode)[1]
    /\ timeInPhase = 0
    /\ timeInPhaseRef = 0
    /\ currentJointAngles = InitialCurrentPose(mode, sequence)
    /\ targetJointAngles = InitialTargetPose(mode, sequence)
    /\ previousPose = InitialCurrentPose(mode, sequence)
    /\ isMovingToTarget = FALSE
    /\ beatCount = 0
    /\ lastBeatTime = 0
    /\ transitionStartTime = 0
    /\ transitionStartPose = neutralPose
    /\ lastTimestamp = Null
    /\ sessionStartTime = Null
    /\ dataLog = <<>>
    /\ animationFrame = FALSE
    /\ alerts = 0
    /\ clock = 0
    /\ timeLeft = <<50, 0>>
    /\ isAdvancing = FALSE
    /\ advancePending = 0
    /\ intervalRef = FALSE

Init ==
    \E m \in {"continuous", "trial", "periodic"} :
        \E s \in InitialSettings(m) : Mounted(m, s)

configVars == <<mode, settings, enabledPoses>>

\* the state only the ClassificationMode component has
classVars == <<timeLeft, isAdvancing, advancePending, intervalRef>>

beatVars == <<isMovingToTarget, beatCount, lastBeatTime, transitionStartTime,
              transitionStartPose>>

(***************************************************************************)
(* The start/stop effect, which runs whenever isRunning, isPaused or the   *)
(* animate callback changes.  Each operator gives what the effect leaves   *)
(* in one ref, from the flags it sees and the ref's value before.          *)
(***************************************************************************)
EffectLastTimestamp(running, paused, before) ==
    IF running /\ ~paused THEN Null ELSE before

\* a variant that leaves the accumulator as it is
EffectTimeInPhaseRefKept(running, paused, before) == before

EffectTimeInPhaseRef(running, paused, before) ==
    IF running /\ ~paused THEN 0 ELSE before

EffectLastBeatTime(m, running, paused, before) ==
    IF m = "periodic" /\ running /\ ~paused THEN 0 ELSE before

\* a variant that leaves the callback requested while the session is paused
EffectAnimationFrameWhilePaused(running, paused) == running

\* requestAnimationFrame(animate) or cancelAnimationFrame
EffectAnimationFrame(running, paused) == running /\ ~paused

(***************************************************************************)
(* Handlers of the session buttons.                                        *)
(***************************************************************************)
\* variant: every start empties the log
LogAtStartCleared(started, log) == <<>>

\* if (!sessionStarted) { setSessionStarted(true); setDataLog([]); }
LogAtStart(started, log) == IF ~started THEN <<>> ELSE log

\* the Start / Resume button is disabled while running and not paused
startSession ==
    /\ ~(isRunning /\ ~isPaused)
    /\ sessionStarted' = TRUE
    /\ isRunning' = TRUE
    /\ isPaused' = FALSE
    /\ dataLog' = LogAtStart(sessionStarted, dataLog)
    /\ IF ~sessionStarted /\ mode = "trial"
       THEN /\ targetJointAngles' = getPose(At(sequence, 0))
            /\ currentJointAngles' = neutralPose
            /\ phase' = "rest"
       ELSE UNCHANGED <<targetJointAngles, currentJointAngles, phase>>
    /\ lastTimestamp' = EffectLastTimestamp(TRUE, FALSE, lastTimestamp)
    /\ timeInPhaseRef' = EffectTimeInPhaseRef(TRUE, FALSE, timeInPhaseRef)
    /\ lastBeatTime' = EffectLastBeatTime(mode, TRUE, FALSE, lastBeatTime)
    /\ animationFrame' = EffectAnimationFrame(TRUE, FALSE)
    /\ UNCHANGED <<classVars, configVars, sequence, trialIndex, timeInPhase, previousPose,
                   isMovingToTarget, beatCount, transitionStartTime,
                   transitionStartPose, sessionStartTime, alerts, clock>>

\* the Pause button toggles isPaused and is disabled while not running
pauseSession ==
    /\ isRunning
    /\ isPaused' = ~isPaused
    /\ lastTimestamp' = EffectLastTimestamp(isRunning, ~isPaused, lastTimestamp)
    /\ timeInPhaseRef' = EffectTimeInPhaseRef(isRunning, ~isPaused, timeInPhaseRef)
    /\ lastBeatTime' = EffectLastBeatTime(mode, isRunning, ~isPaused, lastBeatTime)
    /\ animationFrame' = EffectAnimationFrame(isRunning, ~isPaused)
    /\ UNCHANGED <<classVars, configVars, isRunning, sessionStarted, sequence, trialIndex,
                   phase, timeInPhase, currentJointAngles, targetJointAngles,
                   previousPose, isMovingToTarget, beatCount, transitionStartTime,
                   transitionStartPose, sessionStartTime, dataLog, alerts, clock>>

\* resetSession, then the "initialize sequence" effect when sessionStarted
\* went from true to false, then the start/stop effect
resetSession ==
    /\ isRunning' = FALSE
    /\ isPaused' = FALSE
    /\ sessionStarted' = FALSE
    /\ trialIndex' = 0
    /\ phase' = PhaseOrder(mode)[1]
    /\ timeInPhase' = 0
    /\ beatCount' = 0
    /\ isMovingToTarget' = FALSE
    /\ dataLog' = <<>>
    /\ sequence' \in (IF sessionStarted
                      THEN InitialSequences(mode, settings, enabledPoses)
                      ELSE {sequence})
    /\ IF sessionStarted
       THEN /\ currentJointAngles' = InitialCurrentPose(mode, sequence')
            /\ targetJointAngles' = InitialTargetPose(mode, sequence')
            /\ previousPose' = InitialCurrentPose(mode, sequence')
       ELSE /\ currentJointAngles' = neutralPose
            /\ targetJointAngles' = neutralPose
            /\ previousPose' = neutralPose
    /\ lastTimestamp' = EffectLastTimestamp(FALSE, FALSE, Null)
    /\ sessionStartTime' = Null
    /\ lastBeatTime' = IF mode = "periodic" THEN 0 ELSE lastBeatTime
    /\ timeInPhaseRef' = EffectTimeInPhaseRef(FALSE, FALSE, timeInPhaseRef)
    /\ animationFrame' = EffectAnimationFrame(FALSE, FALSE)
    /\ UNCHANGED <<classVars, configVars, transitionStartTime, transitionStartPose, alerts, clock>>

\* a display-only checkbox (show target hand): settings is a new object, so
\* animate is a new callback and the start/stop effect runs again
toggleShowTargetHand ==
    /\ settings' = [settings EXCEPT !.showTargetHand = ~settings.showTargetHand]
    /\ lastTimestamp' = EffectLastTimestamp(isRunning, isPaused, lastTimestamp)
    /\ timeInPhaseRef' = EffectTimeInPhaseRef(isRunning, isPaused, timeInPhaseRef)
    /\ lastBeatTime' = EffectLastBeatTime(mode, isRunning, isPaused, lastBeatTime)
    /\ animationFrame' = EffectAnimationFrame(isRunning, isPaused)
    /\ UNCHANGED <<classVars, mode, enabledPoses, isRunning, isPaused, sessionStarted, sequence,
                   trialIndex, phase, timeInPhase, currentJointAngles,
                   targetJointAngles, previousPose, isMovingToTarget, beatCount,
                   transitionStartTime, transitionStartPose, sessionStartTime,
                   dataLog, alerts, clock>>

\* variant: the selection stays open after the session is started
SelectionOpenAlways(started) == TRUE

\* the pose tiles act, and the "initialize sequence" effect runs, only while
\* no session is started
SelectionOpen(started) == ~started

\* the poses whose tile is clicked in these runs
TogglePoses == {"thumbIndexPinch"}

\* a click on the tile of a pose: the pose is enabled or disabled, and the
\* "initialize sequence" effect stores a new sequence
togglePose(poseName) ==
    IF ~SelectionOpen(sessionStarted)
    THEN UNCHANGED vars
    ELSE /\ enabledPoses' = IF poseName \in enabledPoses
                            THEN enabledPoses \ {poseName}
                            ELSE enabledPoses \cup {poseName}
         /\ sequence' \in InitialSequences(mode, settings, enabledPoses')
         /\ currentJointAngles' = InitialCurrentPose(mode, sequence')
         /\ targetJointAngles' = InitialTargetPose(mode, sequence')
         /\ previousPose' = InitialCurrentPose(mode, sequence')
         /\ UNCHANGED <<classVars, mode, settings, isRunning, isPaused, sessionStarted, trialIndex,
                        phase, timeInPhase, timeInPhaseRef, beatVars, lastTimestamp,
                        sessionStartTime, dataLog, animationFrame, alerts, clock>>

(***************************************************************************)
(* The frame callback, animate(timestamp).                                 *)
(***************************************************************************)
\* a variant whose first callback measures from the time origin
DeltaTimeFromOrigin(timestamp, last) ==
    IF ~Truthy(last) THEN timestamp ELSE timestamp - last

\* a variant in which no callback measures any time
DeltaTimeNone(timestamp, last) == 0

\* deltaTime: the first callback after lastTimestampRef was cleared only
\* initialises lastTimestampRef, later ones measure from the previous callback
DeltaTime(timestamp, last) ==
    IF ~Truthy(last) THEN 0 ELSE timestamp - last

\* sessionStartTimeRef after the first-callback initialisation
StartTimeAfter(timestamp, last, before) ==
    IF ~Truthy(last) THEN timestamp ELSE before

\* a variant that needs the duration to be exceeded
PhaseExpiredLate(newTime, currentPhaseDuration) == newTime > currentPhaseDuration

\* if (newTime >= currentPhaseDuration)
PhaseExpired(newTime, currentPhaseDuration) == newTime >= currentPhaseDuration

\* a variant that also logs when the remainder equals the delta
ShouldLogInclusive(newTime, interval, deltaTime) == newTime % interval <= deltaTime

\* a variant that logs only on a tick landing exactly on a boundary
ShouldLogExact(newTime, interval, deltaTime) == deltaTime > 0 /\ newTime % interval = 0

\* if (newTime % logInterval < deltaTime)
ShouldLog(newTime, interval, deltaTime) == newTime % interval < deltaTime

\* if (timeSinceLastBeat >= beatInterval)
BeatDue(timeSinceLastBeat, interval) == timeSinceLastBeat >= interval

\* a variant that goes one entry past the end of the sequence
SequenceExhaustedLate(nextIndex, seq) == nextIndex > Len(seq)

\* if (nextIndex >= sequence.length): no further entry, the session is complete
SequenceExhausted(nextIndex, seq) == nextIndex >= Len(seq)

\* a variant that skips one phase of the ordering
NextPhaseSkipping(m, phaseName) ==
    LET order == PhaseOrder(m)
        i == CHOOSE k \in 1..Len(order) : order[k] = phaseName
    IN  IF i + 1 < Len(order) THEN order[i + 2] ELSE order[1]

\* the phase after phaseName in the paradigm's ordering (the first one after the last)
NextPhase(m, phaseName) ==
    LET order == PhaseOrder(m)
        i == CHOOSE k \in 1..Len(order) : order[k] = phaseName
    IN  IF i < Len(order) THEN order[i + 1] ELSE order[1]

\* a variant that logs after the phase transition check
RecordedPhaseAfterTransition(before, after) == after

\* the phase name handed to logDataPoint, which is called before the phase
\* transition check: the name of the phase the frame was processed in
RecordedPhase(before, after) == before

\* logDataPoint of the continuous component
ContinuousDataPoint(timestamp, startTime, currentPose, targetPose, phaseName, poseIndex, targetPoseName) ==
    [timestamp |-> timestamp, sessionTime |-> timestamp - startTime, phase |-> phaseName,
     poseIndex |-> poseIndex, targetPoseName |-> targetPoseName,
     current |-> poseToLabeledObject(currentPose),
     target |-> poseToLabeledObject(targetPose)]

\* a variant that logs the pose of the trial's stimulus as the target
PeriodicDataPointNominal(timestamp, startTime, currentPose, targetPose, phaseName, index, targetPoseName, beatNum, movingToTarget) ==
    [timestamp |-> timestamp, sessionTime |-> timestamp - startTime, phase |-> phaseName,
     trialIndex |-> index, targetPoseName |-> targetPoseName, beatNumber |-> beatNum,
     movingToTarget |-> movingToTarget,
     current |-> poseToLabeledObject(currentPose),
     target |-> poseToLabeledObject(getPose(targetPoseName))]

\* logDataPoint of the periodic component
PeriodicDataPoint(timestamp, startTime, currentPose, targetPose, phaseName, index, targetPoseName, beatNum, movingToTarget) ==
    [timestamp |-> timestamp, sessionTime |-> timestamp - startTime, phase |-> phaseName,
     trialIndex |-> index, targetPoseName |-> targetPoseName, beatNumber |-> beatNum,
     movingToTarget |-> movingToTarget,
     current |-> poseToLabeledObject(currentPose),
     target |-> poseToLabeledObject(targetPose)]

\* a variant after which animate requests another frame
completeSessionThenRequest ==
    /\ isRunning' = FALSE
    /\ isPaused' = FALSE
    /\ alerts' = alerts + 1
    /\ animationFrame' = TRUE

\* completeSession, called from animate, which then returns without
\* requesting another frame
completeSession ==
    /\ isRunning' = FALSE
    /\ isPaused' = FALSE
    /\ alerts' = alerts + 1
    /\ animationFrame' = FALSE

\* animate of ContinuousMotionMode
animateContinuous(timestamp) ==
    LET deltaTime == DeltaTime(timestamp, lastTimestamp)
        startTime == StartTimeAfter(timestamp, lastTimestamp, sessionStartTime)
        currentPhase == phase
        currentPhaseDuration == getPhaseDuration(mode, settings, currentPhase)
        newTime == timeInPhaseRef + deltaTime
        progress == Progress(newTime, currentPhaseDuration)
        interpolatedPose == interpolatePoses(previousPose, targetJointAngles, progress,
                                             settings.interpolationType)
        pose == IF currentPhase = "transition" THEN interpolatedPose ELSE currentJointAngles
        log == IF ShouldLog(newTime, logInterval(settings), deltaTime)
               THEN Append(dataLog,
                        ContinuousDataPoint(timestamp, startTime, pose, targetJointAngles,
                            RecordedPhase(currentPhase, phase'), trialIndex,
                            At(sequence, trialIndex)))
               ELSE dataLog
        nextIndex == trialIndex + 1
    IN  /\ lastTimestamp' = timestamp
        /\ sessionStartTime' = startTime
        /\ IF ~PhaseExpired(newTime, currentPhaseDuration)
           THEN /\ timeInPhaseRef' = newTime
                /\ timeInPhase' = newTime
                /\ currentJointAngles' = pose
                /\ animationFrame' = TRUE
                /\ UNCHANGED <<isRunning, isPaused, alerts, trialIndex, phase,
                               targetJointAngles, previousPose>>
           ELSE IF currentPhase = "rest"
           THEN IF SequenceExhausted(nextIndex, sequence)
                THEN /\ completeSession
                     /\ timeInPhaseRef' = newTime
                     /\ timeInPhase' = newTime
                     /\ currentJointAngles' = pose
                     /\ UNCHANGED <<trialIndex, phase, targetJointAngles, previousPose>>
                ELSE /\ previousPose' = pose
                     /\ targetJointAngles' = getPose(At(sequence, nextIndex))
                     /\ trialIndex' = nextIndex
                     /\ phase' = "transition"
                     /\ timeInPhaseRef' = 0
                     /\ timeInPhase' = 0
                     /\ currentJointAngles' = pose
                     /\ animationFrame' = TRUE
                     /\ UNCHANGED <<isRunning, isPaused, alerts>>
           ELSE /\ currentJointAngles' = targetJointAngles
                /\ previousPose' = targetJointAngles
                /\ phase' = "rest"
                /\ timeInPhaseRef' = 0
                /\ timeInPhase' = 0
                /\ animationFrame' = TRUE
                /\ UNCHANGED <<isRunning, isPaused, alerts, trialIndex, targetJointAngles>>
        /\ dataLog' = log
        /\ UNCHANGED <<classVars, configVars, sessionStarted, sequence, beatVars>>

\* animate of the trial-based ContinuousMotionMode
animateTrial(timestamp) ==
    LET deltaTime == DeltaTime(timestamp, lastTimestamp)
        startTime == StartTimeAfter(timestamp, lastTimestamp, sessionStartTime)
        currentPhase == phase
        currentPhaseDuration == getPhaseDuration(mode, settings, currentPhase)
        newTime == timeInPhaseRef + deltaTime
        progress == Progress(newTime, currentPhaseDuration)
        pose == CASE currentPhase = "preparation" ->
                        interpolatePoses(neutralPose, targetJointAngles, progress,
                                         settings.interpolationType)
                  [] currentPhase = "execution" -> targetJointAngles
                  [] currentPhase = "returnCue" ->
                        interpolatePoses(targetJointAngles, neutralPose, progress,
                                         settings.interpolationType)
                  [] currentPhase = "rest" -> neutralPose
                  [] OTHER -> currentJointAngles
        currentPhaseIdx == CHOOSE k \in 1..Len(PHASE_ORDER) : PHASE_ORDER[k] = currentPhase
        nextIndex == trialIndex + 1
    IN  /\ lastTimestamp' = timestamp
        /\ sessionStartTime' = startTime
        /\ currentJointAngles' = pose
        /\ IF ~PhaseExpired(newTime, currentPhaseDuration)
           THEN /\ timeInPhaseRef' = newTime
                /\ timeInPhase' = newTime
                /\ animationFrame' = TRUE
                /\ UNCHANGED <<isRunning, isPaused, alerts, trialIndex, phase,
                               targetJointAngles>>
           ELSE IF currentPhaseIdx < Len(PHASE_ORDER)
           THEN /\ phase' = NextPhase(mode, currentPhase)
                /\ timeInPhaseRef' = 0
                /\ timeInPhase' = 0
                /\ animationFrame' = TRUE
                /\ UNCHANGED <<isRunning, isPaused, alerts, trialIndex, targetJointAngles>>
           ELSE IF SequenceExhausted(nextIndex, sequence)
           THEN /\ completeSession
                /\ timeInPhaseRef' = newTime
                /\ timeInPhase' = newTime
                /\ UNCHANGED <<trialIndex, phase, targetJointAngles>>
           ELSE /\ targetJointAngles' = getPose(At(sequence, nextIndex))
                /\ trialIndex' = nextIndex
                /\ phase' = NextPhase(mode, currentPhase)
                /\ timeInPhaseRef' = 0
                /\ timeInPhase' = 0
                /\ animationFrame' = TRUE
                /\ UNCHANGED <<isRunning, isPaused, alerts>>
        /\ UNCHANGED <<classVars, configVars, sessionStarted, sequence, previousPose, beatVars,
                       dataLog>>

\* a variant in which every beat sends the hand to the target
MovingAfterBeatToTarget(moving) == TRUE

\* const newMovingToTarget = !isMovingToTargetRef.current
MovingAfterBeat(moving) == ~moving

\* animate of PeriodicMotionMode
animatePeriodic(timestamp) ==
    LET first == ~Truthy(lastTimestamp)
        deltaTime == DeltaTime(timestamp, lastTimestamp)
        startTime == StartTimeAfter(timestamp, lastTimestamp, sessionStartTime)
        lastBeat0 == IF first THEN timestamp ELSE lastBeatTime
        transitionStart0 == IF first THEN timestamp ELSE transitionStartTime
        currentPhase == phase
        currentPhaseDuration == getPhaseDuration(mode, settings, currentPhase)
        newTime == timeInPhaseRef + deltaTime
        currentTrialPoseName == IF At(sequence, trialIndex) = Undefined THEN "neutral"
                                ELSE At(sequence, trialIndex)
        targetPose == getPose(currentTrialPoseName)
        active == currentPhase = "active"
        \* beat detection
        beat == active /\ BeatDue(timestamp - lastBeat0, beatInterval(settings))
        lastBeat1 == IF beat THEN timestamp ELSE lastBeat0
        moving1 == IF beat THEN MovingAfterBeat(isMovingToTarget) ELSE isMovingToTarget
        transitionStart1 == IF beat THEN timestamp ELSE transitionStart0
        startPose1 == IF beat THEN currentJointAngles ELSE transitionStartPose
        beatCount1 == IF beat THEN beatCount + 1 ELSE beatCount
        \* transition progress and pose
        tProgress == Progress(timestamp - transitionStart1, settings.transitionDuration)
        goalPose == IF moving1 THEN targetPose ELSE neutralPose
        interpolatedPose == interpolatePoses(startPose1, goalPose, tProgress,
                                             settings.interpolationType)
        pose == IF active THEN interpolatedPose ELSE currentJointAngles
        record == IF active
                  THEN PeriodicDataPoint(timestamp, startTime, interpolatedPose, goalPose,
                           RecordedPhase("active", phase'), trialIndex, currentTrialPoseName,
                           beatCount1, moving1)
                  ELSE PeriodicDataPoint(timestamp, startTime, currentJointAngles, neutralPose,
                           RecordedPhase("prep", phase'), trialIndex, currentTrialPoseName,
                           0, FALSE)
        nextTrialIndex == trialIndex + 1
    IN  /\ lastTimestamp' = timestamp
        /\ sessionStartTime' = startTime
        /\ IF ~PhaseExpired(newTime, currentPhaseDuration)
           THEN /\ timeInPhaseRef' = newTime
                /\ timeInPhase' = newTime
                /\ currentJointAngles' = pose
                /\ lastBeatTime' = lastBeat1
                /\ isMovingToTarget' = moving1
                /\ transitionStartTime' = transitionStart1
                /\ transitionStartPose' = startPose1
                /\ beatCount' = beatCount1
                /\ animationFrame' = TRUE
                /\ UNCHANGED <<isRunning, isPaused, alerts, trialIndex, phase, previousPose>>
           ELSE IF currentPhase = "prep"
           THEN /\ phase' = "active"
                /\ timeInPhaseRef' = 0
                /\ timeInPhase' = 0
                /\ beatCount' = 0
                /\ isMovingToTarget' = FALSE
                /\ lastBeatTime' = timestamp
                /\ transitionStartTime' = timestamp
                /\ transitionStartPose' = pose
                /\ currentJointAngles' = pose
                /\ animationFrame' = TRUE
                /\ UNCHANGED <<isRunning, isPaused, alerts, trialIndex, previousPose>>
           ELSE IF SequenceExhausted(nextTrialIndex, sequence)
           THEN /\ completeSession
                /\ timeInPhaseRef' = newTime
                /\ timeInPhase' = newTime
                /\ currentJointAngles' = pose
                /\ lastBeatTime' = lastBeat1
                /\ isMovingToTarget' = moving1
                /\ transitionStartTime' = transitionStart1
                /\ transitionStartPose' = startPose1
                /\ beatCount' = beatCount1
                /\ UNCHANGED <<trialIndex, phase, previousPose>>
           ELSE /\ trialIndex' = nextTrialIndex
                /\ phase' = "prep"
                /\ timeInPhaseRef' = 0
                /\ timeInPhase' = 0
                /\ beatCount' = 0
                /\ currentJointAngles' = neutralPose
                /\ previousPose' = neutralPose
                /\ isMovingToTarget' = FALSE
                /\ lastBeatTime' = lastBeat1
                /\ transitionStartTime' = transitionStart1
                /\ transitionStartPose' = startPose1
                /\ animationFrame' = TRUE
                /\ UNCHANGED <<isRunning, isPaused, alerts>>
        /\ dataLog' = IF ShouldLog(newTime, logInterval(settings), deltaTime)
                      THEN Append(dataLog, record) ELSE dataLog
        /\ UNCHANGED <<classVars, configVars, sessionStarted, sequence, targetJointAngles>>

animate(timestamp) ==
    CASE mode = "continuous" -> animateContinuous(timestamp)
      [] mode = "trial" -> animateTrial(timestamp)
      [] OTHER -> animatePeriodic(timestamp)

(***************************************************************************)
(* The host: time passes, and a pending frame callback is delivered with   *)
(* the time of the frame, which is later than the time origin.             *)
(***************************************************************************)
Frame(d, horizon) ==
    /\ animationFrame
    /\ clock + d > 0
    /\ clock + d <= horizon
    /\ clock' = clock + d
    /\ animate(clock + d)

Tick == \E d \in Deltas : Frame(d, MaxTime)

\* no callback is pending (not started, paused or completed): time just passes
Idle ==
    /\ ~animationFrame
    /\ \E d \in IdleSpans :
          /\ clock + d <= MaxTime
          /\ clock' = clock + d
    /\ UNCHANGED <<classVars, configVars, isRunning, isPaused, sessionStarted, sequence, trialIndex,
                   phase, timeInPhase, timeInPhaseRef, currentJointAngles,
                   targetJointAngles, previousPose, beatVars, lastTimestamp,
                   sessionStartTime, dataLog, animationFrame, alerts>>

\* the session buttons and the host
Next ==
    \/ startSession
    \/ pauseSession
    \/ resetSession
    \/ Tick
    \/ Idle

Spec == Init /\ [][Next]_vars

\* ... and the display-only checkbox
NextDisplay ==
    \/ Next
    \/ toggleShowTargetHand

SpecDisplay == Init /\ [][NextDisplay]_vars

\* ... and the clicks on the pose tiles
NextConfig ==
    \/ NextDisplay
    \/ \E poseName \in TogglePoses : togglePose(poseName)

SpecConfig == Init /\ [][NextConfig]_vars

\* a session that is started once and then only receives frames
firstStart == ~sessionStarted /\ startSession

TickRun == \E d \in Deltas : Frame(d, MaxRunTime)

NextRun ==
    \/ firstStart
    \/ TickRun

SpecRun == Init /\ [][NextRun]_vars

\* a trial-based session with the default durations that is started once and
\* receives a frame every ScenarioDeltas milliseconds
InitScenario == Mounted("trial", DefaultTrialSettings)

TickScenario == \E d \in ScenarioDeltas : Frame(d, MaxScenarioTime)

NextScenario ==
    \/ firstStart
    \/ TickScenario

SpecScenario == InitScenario /\ [][NextScenario]_vars

(***************************************************************************)
(* The sequence generators on their own.  A component is constructed with  *)
(* an empty sequence; its "initialize sequence" effect then stores a       *)
(* generated one.  The number of entries and the enabled poses are the     *)
(* inputs, drawn from every value up to the bounds.                        *)
(***************************************************************************)
MaxNumTargets == 3

\* the poses that can be enabled in these runs
GenPoseNames == {"neutral", "open", "closedGrasp", "thumbIndexPinch", "indexExtension"}

GenSettings(m, n) ==
    CASE m = "continuous" -> [ContinuousSettings EXCEPT !.numTargets = n]
      [] m = "trial" -> [TrialSettings EXCEPT !.numTargets = n]
      [] OTHER -> [PeriodicSettings EXCEPT !.numTrials = n]

\* the state of a component of paradigm m right after construction (useState
\* and useRef initial values), before any effect has run
Constructed(m, s, enabled) ==
    /\ mode = m
    /\ settings = s
    /\ enabledPoses = enabled
    /\ isRunning = FALSE
    /\ isPaused = FALSE
    /\ sessionStarted = FALSE
    /\ sequence = <<>>
    /\ trialIndex = 0
    /\ phase = PhaseOrder(m)[1]
    /\ timeInPhase = 0
    /\ timeInPhaseRef = 0
    /\ currentJointAngles = neutralPose
    /\ targetJointAngles = neutralPose
    /\ previousPose = neutralPose
    /\ isMovingToTarget = FALSE
    /\ beatCount = 0
    /\ lastBeatTime = 0
    /\ transitionStartTime = 0
    /\ transitionStartPose = neutralPose
    /\ lastTimestamp = Null
    /\ sessionStartTime = Null
    /\ dataLog = <<>>
    /\ animationFrame = FALSE
    /\ alerts = 0
    /\ clock = 0
    /\ timeLeft = <<50, 0>>
    /\ isAdvancing = FALSE
    /\ advancePending = 0
    /\ intervalRef = FALSE

InitGen ==
    \E m \in {"continuous", "trial", "periodic"} :
        \E n \in 1..MaxNumTargets :
            \E enabled \in SUBSET GenPoseNames : Constructed(m, GenSettings(m, n), enabled)

\* the "initialize sequence" effect of the three components
initializeSequence ==
    /\ ~sessionStarted
    /\ sequence = <<>>
    /\ sequence' \in InitialSequences(mode, settings, enabledPoses)
    /\ currentJointAngles' = InitialCurrentPose(mode, sequence')
    /\ targetJointAngles' = InitialTargetPose(mode, sequence')
    /\ previousPose' = InitialCurrentPose(mode, sequence')
    /\ UNCHANGED <<classVars, configVars, isRunning, isPaused, sessionStarted, trialIndex, phase,
                   timeInPhase, timeInPhaseRef, beatVars, lastTimestamp, sessionStartTime,
                   dataLog, animationFrame, alerts, clock>>

SpecGen == InitGen /\ [][initializeSequence]_vars

\* generatePoseSequence called with the start pose 'neutral' and the enabled
\* poses, whatever they are, as allowedPoses
InitWalk ==
    \E n \in 1..MaxNumTargets :
        \E allowed \in SUBSET GenPoseNames :
            Constructed("continuous", GenSettings("continuous", n), allowed)

callGeneratePoseSequence ==
    /\ sequence = <<>>
    /\ sequence' \in generatePoseSequence(settings.numTargets, "neutral", TRUE,
                                          EnabledOf(enabledPoses))
    /\ UNCHANGED <<classVars, configVars, isRunning, isPaused, sessionStarted, trialIndex, phase,
                   timeInPhase, timeInPhaseRef, currentJointAngles, targetJointAngles,
                   previousPose, beatVars, lastTimestamp, sessionStartTime, dataLog,
                   animationFrame, alerts, clock>>

SpecWalk == InitWalk /\ [][callGeneratePoseSequence]_vars

\* the allowed pools of the calls below: one pose, two poses, and the library
\* without some of its last three poses
WalkPools ==
    {{"open"}, {"open", "closedGrasp"}}
        \cup {Elements(POSE_NAMES) \ S : S \in SUBSET {"threeFingerPinch", "indexHook", "pinkyHook"}}

\* the options of a call of generatePoseSequence, kept in settings
InitSelection ==
    \E n \in 1..MaxNumTargets, allowed \in WalkPools, jump \in BOOLEAN :
        Constructed("continuous",
                    [numTargets |-> n, startPose |-> "neutral", occasionalLargeJump |-> jump],
                    allowed)

callGeneratePoseSequenceWithOptions ==
    /\ sequence = <<>>
    /\ sequence' \in generatePoseSequence(settings.numTargets, settings.startPose,
                                          settings.occasionalLargeJump, EnabledOf(enabledPoses))
    /\ UNCHANGED <<classVars, configVars, isRunning, isPaused, sessionStarted, trialIndex, phase,
                   timeInPhase, timeInPhaseRef, currentJointAngles, targetJointAngles,
                   previousPose, beatVars, lastTimestamp, sessionStartTime, dataLog,
                   animationFrame, alerts, clock>>

SpecSelection == InitSelection /\ [][callGeneratePoseSequenceWithOptions]_vars

(***************************************************************************)
(* The settings inputs.  A text typed into a number field is a sequence of *)
(* characters; the handler stores parseInt(text) || default (parseFloat    *)
(* for the frequency, which is held in tenths of a hertz).                 *)
(***************************************************************************)
\* the texts typed into a field in these runs
EnteredTexts ==
    {<<>>, <<"a">>, <<"-">>, <<"0">>, <<"2">>, <<"2", "a">>, <<"-", "2">>,
     <<"0", ".", "5">>, <<"-", "0", ".", "5">>}

DigitValue(c) == CASE c = "0" -> 0 [] c = "2" -> 2 [] c = "5" -> 5 [] OTHER -> Null

IsDigit(c) == DigitValue(c) # Null

\* the digits a text begins with
RECURSIVE LeadingDigits(_)
LeadingDigits(text) ==
    IF Len(text) = 0 \/ ~IsDigit(text[1]) THEN <<>>
    ELSE <<text[1]>> \o LeadingDigits(Tail(text))

\* the number a sequence of digits denotes
RECURSIVE DigitsValue(_)
DigitsValue(digits) ==
    IF Len(digits) = 0 THEN 0
    ELSE 10 * DigitsValue(SubSeq(digits, 1, Len(digits) - 1)) + DigitValue(digits[Len(digits)])

\* parseInt(text): an optional sign and the digits that follow it; NaN when
\* there is no digit
parseInt(text) ==
    LET negative == Len(text) > 0 /\ text[1] = "-"
        body == IF negative THEN Tail(text) ELSE text
        digits == LeadingDigits(body)
    IN  IF Len(digits) = 0 THEN [isNaN |-> TRUE, value |-> 0]
        ELSE [isNaN |-> FALSE,
              value |-> IF negative THEN 0 - DigitsValue(digits) ELSE DigitsValue(digits)]

\* parseFloat(text) in tenths, for texts of at most one decimal: an optional
\* sign, digits, and an optional point with the digits behind it
parseFloat(text) ==
    LET negative == Len(text) > 0 /\ text[1] = "-"
        body == IF negative THEN Tail(text) ELSE text
        whole == LeadingDigits(body)
        rest == SubSeq(body, Len(whole) + 1, Len(body))
        decimals == IF Len(rest) > 0 /\ rest[1] = "." THEN LeadingDigits(Tail(rest)) ELSE <<>>
        tenths == 10 * DigitsValue(whole)
                     + (IF Len(decimals) > 0 THEN DigitValue(decimals[1]) ELSE 0)
    IN  IF Len(whole) = 0 /\ Len(decimals) = 0 THEN [isNaN |-> TRUE, value |-> 0]
        ELSE [isNaN |-> FALSE, value |-> IF negative THEN 0 - tenths ELSE tenths]

\* parsed || default: NaN and 0 are falsy
OrDefault(parsed, default) ==
    IF parsed.isNaN \/ parsed.value = 0 THEN default ELSE parsed.value

\* the number fields of the settings panel of a paradigm
NumberFields(m) ==
    CASE m = "continuous" -> {"restDuration", "transitionDuration", "numTargets", "logFrameRate"}
      [] m = "trial" -> {"preparationDuration", "executionDuration", "returnCueDuration",
                         "restDuration", "numTargets"}
      [] OTHER -> {"frequency", "prepDuration", "activeDuration", "transitionDuration",
                   "numTrials", "logFrameRate"}

\* the default an onChange handler falls back to
FieldDefault(m, field) ==
    CASE field = "frequency" -> 8
      [] field = "prepDuration" -> 2000
      [] field = "activeDuration" -> 10000
      [] field = "transitionDuration" -> IF m = "periodic" THEN 300 ELSE 1200
      [] field = "numTrials" -> 20
      [] field = "logFrameRate" -> 30
      [] field = "preparationDuration" -> 1000
      [] field = "executionDuration" -> 4000
      [] field = "returnCueDuration" -> 500
      [] field = "restDuration" -> 2000
      [] OTHER -> 50

\* the value the onChange handler of a field stores for a text
FieldValue(m, field, text) ==
    OrDefault(IF field = "frequency" THEN parseFloat(text) ELSE parseInt(text),
              FieldDefault(m, field))

\* onChange of a number field (the fields are disabled once a session is
\* started), with the "initialize sequence" effect, which runs again when the
\* number of entries has changed
editSetting(field, text) ==
    /\ ~sessionStarted
    /\ field \in NumberFields(mode)
    /\ settings' = [settings EXCEPT ![field] = FieldValue(mode, field, text)]
    /\ IF field \in {"numTargets", "numTrials"} /\ settings'[field] # settings[field]
       THEN /\ sequence' \in InitialSequences(mode, settings', enabledPoses)
            /\ currentJointAngles' = InitialCurrentPose(mode, sequence')
            /\ targetJointAngles' = InitialTargetPose(mode, sequence')
            /\ previousPose' = InitialCurrentPose(mode, sequence')
       ELSE UNCHANGED <<sequence, currentJointAngles, targetJointAngles, previousPose>>
    /\ UNCHANGED <<classVars, mode, enabledPoses, isRunning, isPaused, sessionStarted, trialIndex,
                   phase, timeInPhase, timeInPhaseRef, beatVars, lastTimestamp,
                   sessionStartTime, dataLog, animationFrame, alerts, clock>>

\* a component with one enabled pose: its effect stores a sequence, its
\* settings are edited, and then it is started
InitSettings ==
    \E m \in {"continuous", "trial", "periodic"} :
        Constructed(m, GenSettings(m, 2), {"open"})

NextSettings ==
    \/ initializeSequence
    \/ \E field \in NumberFields(mode) : \E text \in EnteredTexts : editSetting(field, text)
    \/ /\ sequence # <<>> \/ settings[IF mode = "periodic" THEN "numTrials" ELSE "numTargets"] <= 0
       /\ firstStart

SpecSettings == InitSettings /\ [][NextSettings]_vars

(***************************************************************************)
(* ClassificationMode: rest, cue and imagery phases counted down by a      *)
(* 100 ms interval.  timeLeft is a double: <<n, r>> stands for the double  *)
(* nearest to n / 10 plus r * 2^-56, which identifies every value the      *)
(* countdown reaches.                                                      *)
(***************************************************************************)
CLASSES == <<"rest", "thumb", "index", "pinky">>

\* the trials of each class (80 in the component; one here, which keeps the
\* shuffled sequence at four trials)
TRIALS_PER_CLASS == 1

\* PHASE_DURATIONS, in seconds
PHASE_DURATIONS == [rest |-> 5, cue |-> 1, imagery |-> 3]

\* the double of a whole number of seconds
Seconds(n) == <<10 * n, 0>>

\* <<n, r, q>>: in double arithmetic <<n, r>> - 0.1 is <<n - 1, q>>, for the
\* values the countdowns from 5, 1 and 3 reach (the values left out, all
\* with r = 0, give <<n - 1, 0>>)
TimeLeftSteps ==
    {<<49, 0, 64>>, <<48, 64, 64>>, <<47, 64, 128>>, <<46, 128, 128>>,
     <<45, 128, 128>>, <<44, 128, 192>>, <<43, 192, 192>>, <<42, 192, 256>>,
     <<41, 256, 256>>, <<40, 256, 256>>, <<39, 256, 256>>, <<38, 256, 224>>,
     <<37, 224, 224>>, <<36, 224, 224>>, <<35, 224, 224>>, <<34, 224, 224>>,
     <<33, 224, 192>>, <<32, 192, 192>>, <<31, 192, 192>>, <<30, 192, 192>>,
     <<29, 192, 192>>, <<28, 192, 160>>, <<28, 0, -32>>, <<27, 160, 160>>,
     <<27, -32, -32>>, <<26, 160, 160>>, <<26, -32, -32>>, <<25, 160, 160>>,
     <<25, -32, -32>>, <<24, 160, 160>>, <<24, -32, -32>>, <<23, 160, 128>>,
     <<23, -32, -64>>, <<22, 128, 128>>, <<22, -64, -64>>, <<21, 128, 128>>,
     <<21, -64, -64>>, <<20, 128, 128>>, <<20, -64, -64>>, <<19, 128, 112>>,
     <<19, -64, -80>>, <<18, 112, 112>>, <<18, -80, -80>>, <<17, 112, 96>>,
     <<17, -80, -96>>, <<16, 96, 96>>, <<16, -96, -96>>, <<15, 96, 96>>,
     <<15, -96, -96>>, <<14, 96, 80>>, <<14, -96, -112>>, <<13, 80, 80>>,
     <<13, -112, -112>>, <<12, 80, 64>>, <<12, -112, -128>>, <<11, 64, 64>>,
     <<11, -128, -120>>, <<10, 64, 64>>, <<10, -120, -120>>, <<9, 64, 64>>,
     <<9, -120, -120>>, <<8, 64, 72>>, <<8, 0, 8>>, <<8, -120, -112>>,
     <<7, 72, 72>>, <<7, 8, 8>>, <<7, -112, -112>>, <<6, 72, 72>>,
     <<6, 8, 8>>, <<6, -112, -112>>, <<5, 72, 72>>, <<5, 8, 8>>,
     <<5, -112, -112>>, <<4, 72, 76>>, <<4, 8, 12>>, <<4, -112, -108>>,
     <<3, 76, 74>>, <<3, 12, 10>>, <<3, -108, -110>>, <<2, 74, 74>>,
     <<2, 10, 10>>, <<2, -110, -110>>, <<1, 74, 74>>, <<1, 10, 10>>,
     <<1, -110, -110>>, <<0, 74, 74>>, <<0, 10, 10>>}

\* prev - 0.1
SubtractTenth(prev) ==
    LET steps == {e \in TimeLeftSteps : e[1] = prev[1] /\ e[2] = prev[2]}
    IN  IF steps = {} THEN <<prev[1] - 1, 0>>
        ELSE <<prev[1] - 1, (CHOOSE e \in steps : TRUE)[3]>>

\* variant: the countdown ends one tick early
NotPositiveEarly(t) == t[1] <= 1

\* t <= 0
NotPositive(t) == t[1] < 0 \/ (t[1] = 0 /\ t[2] <= 0)

\* the orders the Fisher-Yates shuffle of the class labels can give
ShuffledTrials ==
    LET n == Len(CLASSES) * TRIALS_PER_CLASS
    IN  {s \in [1..n -> Elements(CLASSES)] :
            \A c \in Elements(CLASSES) :
                Cardinality({i \in 1..n : s[i] = c}) = TRIALS_PER_CLASS}

\* the mounted ClassificationMode component
InitClassification ==
    /\ mode = "classification"
    /\ settings = [showTargetHand |-> FALSE]
    /\ enabledPoses = {}
    /\ isRunning = FALSE
    /\ isPaused = FALSE
    /\ sessionStarted = FALSE
    /\ sequence \in ShuffledTrials
    /\ trialIndex = 0
    /\ phase = "rest"
    /\ timeLeft = Seconds(5)
    /\ isAdvancing = FALSE
    /\ advancePending = 0
    /\ intervalRef = FALSE
    /\ timeInPhase = 0
    /\ timeInPhaseRef = 0
    /\ currentJointAngles = neutralPose
    /\ targetJointAngles = neutralPose
    /\ previousPose = neutralPose
    /\ isMovingToTarget = FALSE
    /\ beatCount = 0
    /\ lastBeatTime = 0
    /\ transitionStartTime = 0
    /\ transitionStartPose = neutralPose
    /\ lastTimestamp = Null
    /\ sessionStartTime = Null
    /\ dataLog = <<>>
    /\ animationFrame = FALSE
    /\ alerts = 0
    /\ clock = 0

\* the state ClassificationMode does not have
frameVars == <<settings, enabledPoses, timeInPhase, timeInPhaseRef, currentJointAngles,
               targetJointAngles, previousPose, beatVars, lastTimestamp, sessionStartTime,
               dataLog, animationFrame, clock>>

\* the completed sessions after which a reset is still explored
MaxCompletions == 1

\* startSession of ClassificationMode, with the timer effect that follows
startSessionClassification ==
    /\ mode = "classification"
    /\ ~(isRunning /\ ~isPaused)
    /\ sessionStarted' = TRUE
    /\ isRunning' = TRUE
    /\ isPaused' = FALSE
    /\ intervalRef' = TRUE
    /\ UNCHANGED <<mode, frameVars, sequence, trialIndex, phase, timeLeft, isAdvancing,
                   advancePending, alerts>>

\* pauseSession of ClassificationMode, with the timer effect that follows
pauseSessionClassification ==
    /\ mode = "classification"
    /\ isRunning
    /\ isPaused' = ~isPaused
    /\ intervalRef' = isPaused
    /\ UNCHANGED <<mode, frameVars, isRunning, sessionStarted, sequence, trialIndex, phase,
                   timeLeft, isAdvancing, advancePending, alerts>>

\* resetSession of ClassificationMode; the "initialize sequence" effect runs
\* again only when sessionStarted has changed
resetSessionClassification ==
    /\ mode = "classification"
    /\ alerts < MaxCompletions
    /\ isRunning' = FALSE
    /\ isPaused' = FALSE
    /\ trialIndex' = 0
    /\ phase' = "rest"
    /\ timeLeft' = Seconds(5)
    /\ sessionStarted' = FALSE
    /\ sequence' \in (IF sessionStarted THEN ShuffledTrials ELSE {<<>>})
    /\ isAdvancing' = FALSE
    /\ intervalRef' = FALSE
    /\ UNCHANGED <<mode, frameVars, advancePending, alerts>>

\* the deferred calls that are followed
MaxPending == 2

\* variant: every callback that finds the time used up defers a call
SchedulesAlways(advancing) == TRUE

\* if (!isAdvancingRef.current)
Schedules(advancing) == ~advancing

\* the interval callback: setTimeLeft(prev => ...).  It may run while the
\* timeout of an earlier callback is still pending; a timeout left pending by
\* a reset has fired before a whole phase of the next session has passed
intervalTick ==
    /\ mode = "classification"
    /\ intervalRef
    /\ (advancePending > 0 /\ ~isAdvancing) => ~NotPositive(SubtractTenth(timeLeft))
    /\ LET newTime == SubtractTenth(timeLeft)
       IN  IF NotPositive(newTime)
           THEN /\ timeLeft' = Seconds(0)
                /\ isAdvancing' = TRUE
                /\ advancePending' = IF Schedules(isAdvancing) THEN Min(advancePending + 1, MaxPending)
                                      ELSE advancePending
           ELSE /\ timeLeft' = newTime
                /\ UNCHANGED <<isAdvancing, advancePending>>
    /\ UNCHANGED <<mode, frameVars, isRunning, isPaused, sessionStarted, sequence,
                   trialIndex, phase, intervalRef, alerts>>

\* variant: the session goes on to a trial past the end of the sequence
LastTrialLate(trial, length) == trial >= length

\* trial >= trialSequence.length - 1
LastTrial(trial, length) == trial >= length - 1

\* the timeout callback, advancePhase(), with the effect that clears
\* isAdvancingRef when the phase has changed
advancePhase ==
    /\ mode = "classification"
    /\ advancePending > 0
    /\ advancePending' = advancePending - 1
    /\ CASE phase = "rest" ->
              /\ phase' = "cue"
              /\ timeLeft' = Seconds(PHASE_DURATIONS.cue)
              /\ isAdvancing' = FALSE
              /\ UNCHANGED <<trialIndex, isRunning, isPaused, intervalRef, alerts>>
         [] phase = "cue" ->
              /\ phase' = "imagery"
              /\ timeLeft' = Seconds(PHASE_DURATIONS.imagery)
              /\ isAdvancing' = FALSE
              /\ UNCHANGED <<trialIndex, isRunning, isPaused, intervalRef, alerts>>
         [] OTHER ->
              IF LastTrial(trialIndex, Len(sequence))
              THEN /\ isRunning' = FALSE
                   /\ isPaused' = FALSE
                   /\ intervalRef' = FALSE
                   /\ alerts' = alerts + 1
                   /\ UNCHANGED <<phase, trialIndex, timeLeft, isAdvancing>>
              ELSE /\ trialIndex' = trialIndex + 1
                   /\ phase' = "rest"
                   /\ timeLeft' = Seconds(PHASE_DURATIONS.rest)
                   /\ isAdvancing' = FALSE
                   /\ UNCHANGED <<isRunning, isPaused, intervalRef, alerts>>
    /\ UNCHANGED <<mode, frameVars, sessionStarted, sequence>>

NextClassification ==
    \/ startSessionClassification
    \/ pauseSessionClassification
    \/ resetSessionClassification
    \/ intervalTick
    \/ advancePhase

SpecClassification == InitClassification /\ [][NextClassification]_vars

(***************************************************************************)
(* interpolatePoses on its own: two library poses, a progress and a curve. *)
(***************************************************************************)
InterpolationTypes == {"linear", "easeInOut", "minimumJerk"}

\* the progress values handed to interpolatePoses: 0, 1/2 and 1
InterpolationTimes == {<<0, 1>>, <<1, 2>>, <<1, 1>>}

InitInterpolate ==
    /\ mode = "trial"
    /\ settings = TrialSettings
    /\ enabledPoses = Elements(POSE_NAMES)
    /\ isRunning = FALSE
    /\ isPaused = FALSE
    /\ sessionStarted = FALSE
    /\ sequence = <<>>
    /\ trialIndex = 0
    /\ phase = "rest"
    /\ timeInPhase = 0
    /\ timeInPhaseRef = 0
    /\ \E name1 \in Elements(POSE_NAMES), name2 \in Elements(POSE_NAMES) :
        /\ previousPose = getPose(name1)
        /\ targetJointAngles = getPose(name2)
        /\ currentJointAngles = getPose(name1)
    /\ isMovingToTarget = FALSE
    /\ beatCount = 0
    /\ lastBeatTime = 0
    /\ transitionStartTime = 0
    /\ transitionStartPose = neutralPose
    /\ lastTimestamp = Null
    /\ sessionStartTime = Null
    /\ dataLog = <<>>
    /\ animationFrame = FALSE
    /\ alerts = 0
    /\ clock = 0
    /\ timeLeft = <<50, 0>>
    /\ isAdvancing = FALSE
    /\ advancePending = 0
    /\ intervalRef = FALSE

\* currentJointAngles = interpolatePoses(previousPose, targetJointAngles, t, type)
callInterpolatePoses ==
    /\ \E t \in InterpolationTimes, interpolationType \in InterpolationTypes :
        currentJointAngles' = interpolatePoses(previousPose, targetJointAngles, t, interpolationType)
    /\ UNCHANGED <<classVars, configVars, isRunning, isPaused, sessionStarted, sequence,
                   trialIndex, phase, timeInPhase, timeInPhaseRef, targetJointAngles,
                   previousPose, beatVars, lastTimestamp, sessionStartTime, dataLog,
                   animationFrame, alerts, clock>>

SpecInterpolate == InitInterpolate /\ [][callInterpolatePoses]_vars

(***************************************************************************)
(* The frame clock under a host whose first frame may carry the timestamp  *)
(* 0 (a time origin at the first frame).                                   *)
(***************************************************************************)
FrameFromOrigin(d, horizon) ==
    /\ animationFrame
    /\ clock + d <= horizon
    /\ clock' = clock + d
    /\ animate(clock + d)

TickFromOrigin == \E d \in Deltas : FrameFromOrigin(d, MaxTime)

NextClock ==
    \/ startSession
    \/ pauseSession
    \/ resetSession
    \/ TickFromOrigin
    \/ Idle

SpecClock == Init /\ [][NextClock]_vars

(***************************************************************************)
(* A session that is run to its end.  The host runs every frame callback   *)
(* that is requested, with a positive delta (weak fairness of the          *)
(* callback).  The user starts, pauses and resumes but never resets; a     *)
(* pause follows a frame and comes early in the run, so that the pauses    *)
(* are finitely many and the clock has time for the whole session after    *)
(* the last resume, and a paused session is resumed (weak fairness of the  *)
(* resume).                                                                *)
(***************************************************************************)
\* the host clock is followed up to this time in such a session
MaxLiveTime == 6000

\* the clock time from which the user does not pause any more
LastPause == 500

\* the time the host lets pass between two frame callbacks, never zero
LiveDeltas == {250, 500}

TickLive == \E d \in LiveDeltas : Frame(d, MaxLiveTime)

\* the Pause button pressed on a running session
pauseLive == ~isPaused /\ lastTimestamp # Null /\ clock < LastPause /\ pauseSession

\* the Pause button pressed on a paused session
resumeLive == isPaused /\ pauseSession

NextLive ==
    \/ startSession
    \/ pauseLive
    \/ resumeLive
    \/ TickLive

\* the host runs the pending callback: what a TickLive step does to the
\* clock.  In NextLive the steps that advance the clock are the TickLive
\* steps, and one is possible exactly when this action is
FrameDelivered ==
    /\ animationFrame
    /\ \E d \in LiveDeltas : clock + d <= MaxLiveTime /\ clock' = clock + d

SpecLive == Init /\ [][NextLive]_vars /\ WF_clock(FrameDelivered) /\ WF_isPaused(resumeLive)

(***************************************************************************)
(* The four paradigms side by side.                                        *)
(***************************************************************************)
InitParadigms == Init \/ InitClassification

NextParadigms ==
    \/ mode # "classification" /\ Next
    \/ NextClassification

SpecParadigms == InitParadigms /\ [][NextParadigms]_vars

(***************************************************************************)
(* Quantities the properties are stated in.                                *)
(***************************************************************************)
\* the session has run to its end and has not been reset since
Completed == sessionStarted /\ ~isRunning

\* the sum of the deltas applied since the first frame callback of the run
Elapsed == lastTimestamp - sessionStartTime

\* the delta the callback delivered at the next state's clock applies
AppliedDelta == IF lastTimestamp = Null THEN 0 ELSE clock' - lastTimestamp

\* the position of a phase in its paradigm's ordering
PhaseIndex(m, phaseName) ==
    CHOOSE k \in 1..Len(PhaseOrder(m)) : PhaseOrder(m)[k] = phaseName

\* the durations of the first n phases of the ordering, added up
DurationOfFirst(m, s, n) ==
    SumOver([k \in 1..n |-> getPhaseDuration(m, s, PhaseOrder(m)[k])], 1..n)

CycleDuration(m, s) == DurationOfFirst(m, s, Len(PhaseOrder(m)))

\* the durations of the phases a session has left behind when it is in
\* phaseName of entry index (the continuous paradigm moves to the next entry
\* when it leaves rest, and ends with the rest phase of the last entry)
TraversedBefore(m, s, index, phaseName) ==
    IF m = "continuous"
    THEN IF phaseName = "rest"
         THEN index * (s.restDuration + s.transitionDuration)
         ELSE index * s.restDuration + (index - 1) * s.transitionDuration
    ELSE index * CycleDuration(m, s) + DurationOfFirst(m, s, PhaseIndex(m, phaseName) - 1)

\* the durations of all the phases a session goes through
TraversedDuration(m, s, seq) ==
    IF m = "continuous"
    THEN Len(seq) * s.restDuration + (Len(seq) - 1) * s.transitionDuration
    ELSE Len(seq) * CycleDuration(m, s)

\* every phase duration over every entry of the sequence
FullSessionDuration(m, s, seq) == Len(seq) * CycleDuration(m, s)

\* the records logged in the current phase of the current entry
RecordsInPhase ==
    Cardinality({i \in DOMAIN dataLog :
        /\ dataLog[i].phase = phase
        /\ (IF mode = "continuous" THEN dataLog[i].poseIndex
            ELSE dataLog[i].trialIndex) = trialIndex})

(***************************************************************************)
(* C1.                                                                     *)
(***************************************************************************)
\* C1: resuming a paused session leaves the time in the phase at the value
\* it had when the session was paused.
C1_ResumeKeepsTimeInPhase ==
    [][(isRunning /\ isPaused /\ isRunning' /\ ~isPaused')
           => timeInPhaseRef' = timeInPhaseRef]_vars

(***************************************************************************)
(* C2.                                                                     *)
(***************************************************************************)
\* C2: once the session is complete it stays complete until it is reset: no
\* frame callback is requested, completion is not signalled again, and phase,
\* trialIndex, the current pose and the log do not change.
C2_CompletionIsTerminal ==
    [][Completed =>
          \/ ~sessionStarted'
          \/ /\ Completed'
             /\ ~animationFrame'
             /\ UNCHANGED <<phase, trialIndex, currentJointAngles, dataLog, alerts>>]_vars

(***************************************************************************)
(* C3.                                                                     *)
(***************************************************************************)
\* C3: on a frame of a running session the phase ends (the next phase is
\* entered, or the session completes) exactly when the deltas applied in the
\* phase, this one included, reach the phase duration; until then the time
\* in the phase is exactly their sum.
C3_PhaseEndsWhenDurationReached ==
    [][(TickRun /\ lastTimestamp # Null) =>
          LET sum == timeInPhaseRef + AppliedDelta
              ended == phase' # phase \/ ~isRunning'
          IN  /\ ended <=> sum >= getPhaseDuration(mode, settings, phase)
              /\ ~ended => timeInPhaseRef' = sum
              /\ (ended /\ isRunning') => timeInPhaseRef' = 0]_vars

\* the rest phase of the continuous paradigm was left on the second of two
\* frames whose deltas add up to its duration
C3_Witness ==
    /\ mode = "continuous"
    /\ phase = "transition"
    /\ trialIndex = 1
    /\ timeInPhaseRef = 0
    /\ lastTimestamp # Null
    /\ Elapsed = settings.restDuration
    /\ Len(dataLog) = 1
    /\ dataLog[1].sessionTime = settings.restDuration

(***************************************************************************)
(* C4.                                                                     *)
(***************************************************************************)
\* C4 as stated: when the deltas applied add up to the full session duration
\* the session is complete, and completion has been signalled once.
C4_CompleteAtFullDuration ==
    (sessionStarted /\ lastTimestamp # Null
        /\ Elapsed = FullSessionDuration(mode, settings, sequence))
    => (Completed /\ alerts = 1)

\* C4: completion is signalled exactly once, when every phase of the session
\* has run for its duration.  What a frame applies beyond the end of a phase
\* is dropped, so the deltas applied are never less than the time accounted
\* for; when nothing was dropped, the session is complete exactly when
\* the deltas have reached the durations of all its phases.
C4_CompleteOnceAfterEveryPhase ==
    (sessionStarted /\ lastTimestamp # Null) =>
        LET accounted == TraversedBefore(mode, settings, trialIndex, phase) + timeInPhaseRef
            total == TraversedDuration(mode, settings, sequence)
        IN  /\ alerts = (IF Completed THEN 1 ELSE 0)
            /\ Elapsed >= accounted
            /\ Completed => accounted >= total
            /\ Elapsed = accounted => (Completed <=> Elapsed >= total)

\* a session whose frames landed on every phase boundary is complete
C4_Witness ==
    /\ Completed
    /\ alerts = 1
    /\ Elapsed = TraversedDuration(mode, settings, sequence)

(***************************************************************************)
(* C5.                                                                     *)
(***************************************************************************)
\* the first phase and the successor of each phase
FirstPhaseOf(m) == IF m = "periodic" THEN "prep" ELSE "rest"

SuccessorOf(m, phaseName) ==
    CASE m = "continuous" -> (IF phaseName = "rest" THEN "transition" ELSE "rest")
      [] m = "trial" ->
            (CASE phaseName = "rest" -> "preparation"
               [] phaseName = "preparation" -> "execution"
               [] phaseName = "execution" -> "returnCue"
               [] OTHER -> "rest")
      [] OTHER -> (IF phaseName = "prep" THEN "active" ELSE "prep")

\* C5: a session starts in the first phase of its paradigm, and every
\* change of phase in a session goes to the immediate successor of the
\* phase, the first phase of the next entry following the last phase; so
\* one frame changes the phase at most once, however large its delta.
C5_PhaseOrder ==
    [][/\ (~sessionStarted /\ sessionStarted') => phase' = FirstPhaseOf(mode)
       /\ (sessionStarted' /\ phase' # phase) =>
             /\ phase' = SuccessorOf(mode, phase)
             /\ timeInPhaseRef' = 0
             /\ trialIndex' = (IF phase' = (IF mode = "continuous" THEN "transition"
                                            ELSE FirstPhaseOf(mode))
                               THEN trialIndex + 1 ELSE trialIndex)]_vars

\* one frame carried a delta as long as the rest and the preparation phase
\* together, and only the rest phase was left
C5_Witness ==
    /\ mode = "trial"
    /\ trialIndex = 0
    /\ phase = "preparation"
    /\ timeInPhaseRef = 0
    /\ lastTimestamp # Null
    /\ Elapsed = settings.restDuration + settings.preparationDuration

(***************************************************************************)
(* C6.                                                                     *)
(***************************************************************************)
\* C6: with rest 2000, preparation 1000, execution 4000, returnCue 500, two
\* entries and a frame every 100 ms, the session spends 20 frames in rest,
\* 10 in preparation, 40 in execution and 5 in returnCue, twice over, and is
\* complete after 150 frames; trialIndex is 0 in the first round and 1 in
\* the second.
C6_TrialScenario ==
    (sessionStarted /\ lastTimestamp # Null) =>
        LET frames == Elapsed \div 100
            inRound == IF frames = 150 THEN 74 ELSE frames % 75
        IN  /\ Len(sequence) = 2
            /\ Elapsed = 100 * frames
            /\ frames <= 150
            /\ Completed <=> frames = 150
            /\ alerts = (IF frames = 150 THEN 1 ELSE 0)
            /\ trialIndex = (IF frames < 75 THEN 0 ELSE 1)
            /\ phase = (CASE inRound < 20 -> "rest"
                          [] inRound >= 20 /\ inRound < 30 -> "preparation"
                          [] inRound >= 30 /\ inRound < 70 -> "execution"
                          [] OTHER -> "returnCue")

\* the session is complete after 150 frames of 100 ms
C6_Witness ==
    /\ mode = "trial"
    /\ settings = DefaultTrialSettings
    /\ Completed
    /\ lastTimestamp # Null
    /\ Elapsed = 15000
    /\ trialIndex = 1
    /\ phase = "returnCue"

(***************************************************************************)
(* C7.                                                                     *)
(***************************************************************************)
\* C7: an active phase of duration D that ran without pause has produced
\* floor(D / beatInterval) beats, whatever the frames were (stated for the
\* last active phase, whose beat count the completed session keeps).
C7_BeatsPerActivePhase ==
    (mode = "periodic" /\ Completed) =>
        beatCount = settings.activeDuration \div beatInterval(settings)

(***************************************************************************)
(* C8.                                                                     *)
(***************************************************************************)
\* C8: the first frame after the loop was (re)started applies no delta: the
\* time in the phase, the phase, the log and the beat count stay as they
\* are and the time since the last beat is zero; and no frame adds more to
\* the time in the phase than the time that passed since the frame before.
C8_ResumeAppliesZeroDelta ==
    [][Tick =>
          /\ lastTimestamp = Null =>
                /\ timeInPhaseRef' = timeInPhaseRef
                /\ phase' = phase
                /\ dataLog' = dataLog
                /\ mode = "periodic" => (lastBeatTime' = clock' /\ beatCount' = beatCount)
          /\ timeInPhaseRef' <= timeInPhaseRef + (clock' - clock)]_vars

\* a session paused in the transition phase has received the first frame
\* after its resumption, at least 500 ms after the last frame it logged
C8_Witness ==
    /\ mode = "continuous"
    /\ phase = "transition"
    /\ isRunning /\ ~isPaused
    /\ Len(dataLog) = 2
    /\ lastTimestamp = clock
    /\ sessionStartTime = clock
    /\ timeInPhaseRef = 0
    /\ Last(dataLog).timestamp + 500 <= clock

(***************************************************************************)
(* C9.                                                                     *)
(***************************************************************************)
\* C9: in the continuous and the periodic paradigm a frame appends one
\* record when floor(timeInPhase / logInterval), taken with the delta of the
\* frame added and before a phase change resets the time, differs from its
\* value before the frame, and appends nothing otherwise.
C9_LogOnBoundaryCrossing ==
    [][(Tick /\ mode \in {"continuous", "periodic"}) =>
          LET before == timeInPhaseRef
              after == before + AppliedDelta
              L == logInterval(settings)
          IN  IF after \div L # before \div L
              THEN /\ Len(dataLog') = Len(dataLog) + 1
                   /\ SubSeq(dataLog', 1, Len(dataLog)) = dataLog
              ELSE dataLog' = dataLog]_vars

\* a frame took the active phase across its first boundary and logged once
C9_Witness ==
    /\ mode = "periodic"
    /\ phase = "active"
    /\ lastTimestamp # Null
    /\ timeInPhaseRef = logInterval(settings)
    /\ RecordsInPhase = 1

(***************************************************************************)
(* C10.                                                                    *)
(***************************************************************************)
\* C10 as stated: a frame appends as many records as it crosses logInterval
\* boundaries, whatever its delta.
C10_RecordPerBoundary ==
    [][(TickRun /\ mode \in {"continuous", "periodic"}) =>
          LET L == logInterval(settings)
          IN  Len(dataLog') - Len(dataLog)
                  = ((timeInPhaseRef + AppliedDelta) \div L) - (timeInPhaseRef \div L)]_vars

\* C10: in a phase run without pause, a frame that crosses one or more
\* logInterval boundaries appends exactly one record and any other frame
\* none; so a frame whose delta is at most logInterval appends one record
\* per boundary, and the records of a phase never outnumber the boundaries
\* its time has crossed.
C10_OneRecordPerCrossingFrame ==
    [][(TickRun /\ mode \in {"continuous", "periodic"}) =>
          LET L == logInterval(settings)
              crossed == ((timeInPhaseRef + AppliedDelta) \div L) - (timeInPhaseRef \div L)
              appended == Len(dataLog') - Len(dataLog)
          IN  /\ appended = Min(1, crossed)
              /\ AppliedDelta <= L => appended = crossed
              /\ (phase' = phase /\ trialIndex' = trialIndex)
                    => RecordsInPhase' <= timeInPhaseRef' \div L]_vars

\* the last rest phase ended on a frame that crossed two boundaries and
\* logged one record
C10_Witness ==
    /\ mode = "continuous"
    /\ Completed
    /\ timeInPhaseRef = 2 * logInterval(settings)
    /\ RecordsInPhase = 1

(***************************************************************************)
(* C11.                                                                    *)
(***************************************************************************)
\* C11: the log changes only by a frame of a started, running, unpaused
\* session appending one record, or by being emptied (reset, first start);
\* so nothing is logged while paused, before the start, after completion
\* or after a reset.
C11_LogGrowsOnlyWhileRunning ==
    [][dataLog' # dataLog =>
          \/ dataLog' = <<>>
          \/ /\ Tick
             /\ sessionStarted /\ isRunning /\ ~isPaused
             /\ Len(dataLog') = Len(dataLog) + 1
             /\ SubSeq(dataLog', 1, Len(dataLog)) = dataLog]_vars

\* a session with a record in its log is paused, and time has passed since
\* the frame that logged the record
C11_Witness ==
    /\ isRunning /\ isPaused
    /\ Len(dataLog) > 0
    /\ Last(dataLog).timestamp < clock

(***************************************************************************)
(* C12.                                                                    *)
(***************************************************************************)
\* the goal pose a periodic record must carry
GoalOfRecord(r) ==
    IF r.phase = "active" /\ r.movingToTarget THEN getPose(r.targetPoseName)
    ELSE getPose("neutral")

\* C12: every record of the periodic log carries the name of the entry of
\* its trial, and as its target the goal pose of its frame: neutral in prep
\* and while not moving to the target, the pose of the entry while moving
\* to the target.
C12_PeriodicRecordTarget ==
    mode = "periodic" =>
        \A i \in DOMAIN dataLog :
            LET r == dataLog[i]
            IN  /\ r.trialIndex \in 0..(Len(sequence) - 1)
                /\ r.targetPoseName = sequence[r.trialIndex + 1]
                /\ r.target = poseToLabeledObject(GoalOfRecord(r))
                /\ r.phase = "prep" => ~r.movingToTarget

\* the log holds a record taken while moving to the target and a later one
\* taken while moving back to neutral
C12_Witness ==
    /\ mode = "periodic"
    /\ \E i, j \in DOMAIN dataLog :
          /\ i < j
          /\ dataLog[i].phase = "active" /\ dataLog[i].movingToTarget
          /\ dataLog[i].target = poseToLabeledObject(getPose(sequence[trialIndex + 1]))
          /\ dataLog[i].target # poseToLabeledObject(getPose("neutral"))
          /\ dataLog[j].phase = "active" /\ ~dataLog[j].movingToTarget
          /\ dataLog[j].target = poseToLabeledObject(getPose("neutral"))

(***************************************************************************)
(* C13.                                                                    *)
(***************************************************************************)
\* every joint angle of p is within u units in the last place of that of q
PoseWithin(p, q, u) ==
    \A finger \in FINGERS : \A joint \in DOMAIN p[finger] :
        /\ p[finger][joint] - q[finger][joint] <= u
        /\ q[finger][joint] - p[finger][joint] <= u

\* the library pose of the current entry of the sequence
EntryPose == getPose(At(sequence, trialIndex))

\* C13 as stated: in the trial-based paradigm a frame processed in rest leaves
\* the neutral pose, one processed in execution the library pose of the
\* current entry, the frame that ends preparation exactly that pose and the
\* frame that ends returnCue exactly the neutral pose.
C13_TrialPoseExact ==
    [][(Tick /\ mode = "trial") =>
          /\ phase = "rest" => currentJointAngles' = neutralPose
          /\ phase = "execution" => currentJointAngles' = EntryPose
          /\ (phase = "preparation" /\ phase' # phase) => currentJointAngles' = EntryPose
          /\ (phase = "returnCue" /\ (phase' # phase \/ ~isRunning'))
                => currentJointAngles' = neutralPose]_vars

\* C13: a frame processed in rest leaves the neutral pose and one processed
\* in execution the library pose of the current entry, exactly; a frame
\* processed in preparation leaves interpolate(neutral, target, progress)
\* and one in returnCue interpolate(target, neutral, progress) with progress
\* = min(timeInPhase / duration, 1), so the frame that ends the phase leaves
\* the end pose up to the rounding of a + (b - a) * 1: within two units in
\* the last place of it.
C13_TrialPoseUpToRounding ==
    [][(Tick /\ mode = "trial") =>
          LET duration == getPhaseDuration(mode, settings, phase)
              newTime == timeInPhaseRef + AppliedDelta
              progress == IF newTime >= duration THEN <<1, 1>> ELSE Frac(newTime, duration)
              ends == phase' # phase \/ ~isRunning'
          IN  /\ phase = "rest" => currentJointAngles' = neutralPose
              /\ phase = "execution" => currentJointAngles' = EntryPose
              /\ phase = "preparation" =>
                    /\ currentJointAngles' = interpolatePoses(neutralPose, EntryPose, progress,
                                                              settings.interpolationType)
                    /\ ends => PoseWithin(currentJointAngles', EntryPose, 2)
              /\ phase = "returnCue" =>
                    /\ currentJointAngles' = interpolatePoses(EntryPose, neutralPose, progress,
                                                              settings.interpolationType)
                    /\ ends => PoseWithin(currentJointAngles', neutralPose, 2)]_vars

\* the frame that ended preparation left a pose that is not the target but
\* within rounding of it
C13_Witness ==
    /\ mode = "trial"
    /\ phase = "execution"
    /\ timeInPhaseRef = 0
    /\ lastTimestamp # Null
    /\ currentJointAngles # EntryPose
    /\ PoseWithin(currentJointAngles, EntryPose, 2)

\* the pose rule of the continuous paradigm, as a predicate of one state
ContinuousPoseRule ==
    mode = "continuous" =>
        /\ phase = "rest" => currentJointAngles = EntryPose
        /\ phase = "transition" =>
              LET duration == settings.transitionDuration
                  progress == IF timeInPhase >= duration
                              THEN <<1, 1>> ELSE Frac(timeInPhase, duration)
              IN  /\ trialIndex >= 1
                  /\ previousPose = getPose(At(sequence, trialIndex - 1))
                  /\ targetJointAngles = EntryPose
                  /\ currentJointAngles =
                        interpolatePoses(previousPose, targetJointAngles, progress,
                                         settings.interpolationType)

\* C14: continuous paradigm: throughout a rest phase the pose is held constant
\* and is the library pose of the current sequence entry (the start pose in
\* the first rest, the target of the preceding transition afterwards);
\* throughout a transition the pose is interpolate(previousPose, targetPose,
\* min(timeInPhase / transitionDuration, 1), curve), previousPose being the
\* pose held in the preceding rest, also across a pause and a resume
C14_ContinuousPose ==
    [][/\ ContinuousPoseRule'
       /\ (Tick /\ mode = "continuous" /\ phase = "rest") =>
              currentJointAngles' = currentJointAngles]_vars

\* a frame of a transition resumed after a pause: two records are logged by
\* the time the transition has run 500 ms, and the resumed transition is
\* again 250 ms old, its pose strictly between the two library poses
C14_Witness ==
    /\ mode = "continuous" /\ phase = "transition"
    /\ isRunning /\ ~isPaused /\ lastTimestamp = clock
    /\ timeInPhase = 250 /\ Len(dataLog) = 2
    /\ currentJointAngles # previousPose
    /\ currentJointAngles # targetJointAngles

\* the pose the hand is moving to after the latest beat
GoalPose == IF isMovingToTarget THEN EntryPose ELSE neutralPose

\* C15: periodic paradigm: after every frame processed in prep the pose is the
\* neutral pose; after every frame processed in active, once the time since
\* the last beat (or the start of the active phase) has reached
\* transitionDuration, the pose equals the goal pose (the stimulus pose while
\* moving to the target, the neutral pose otherwise) until the next beat
C15_PeriodicPose ==
    [][(Tick /\ mode = "periodic") =>
          /\ phase = "prep" => currentJointAngles' = neutralPose
          /\ (/\ phase = "active" /\ phase' = "active"
              /\ clock' - lastBeatTime' >= settings.transitionDuration) =>
                 currentJointAngles' = GoalPose']_vars

\* the same rule with the goal pose reached up to two units in the last place
C15_PeriodicPoseUpToRounding ==
    [][(Tick /\ mode = "periodic") =>
          /\ phase = "prep" => currentJointAngles' = neutralPose
          /\ (/\ phase = "active" /\ phase' = "active"
              /\ clock' - lastBeatTime' >= settings.transitionDuration) =>
                 PoseWithin(currentJointAngles', GoalPose', 2)]_vars

(***************************************************************************)
(* C16..C20: the sequence generators.                                      *)
(***************************************************************************)
\* the number of entries of the sequence that are pose p
Occurrences(p) == Cardinality({i \in DOMAIN sequence : sequence[i] = p})

\* the sequence of the trial-based component is balanced over the pool
Balanced(pool) ==
    LET k == Cardinality(pool)
        n == settings.numTargets
    IN  /\ Len(sequence) = n
        /\ \A p \in pool : Occurrences(p) \in {n \div k, (n + k - 1) \div k}

\* C16: trial-based paradigm: for every enabled pool of size k >= 1 and every
\* requested length n >= 1 the generated sequence has exactly n entries and
\* every pool element appears floor(n/k) or ceil(n/k) times
C16_BalancedBlocks ==
    (mode = "trial" /\ sequence # <<>> /\ enabledPoses # {}) => Balanced(enabledPoses)

\* the same for the pools of two poses or more
C16_BalancedBlocksOfSeveral ==
    (mode = "trial" /\ sequence # <<>> /\ Cardinality(enabledPoses) >= 2) =>
        Balanced(enabledPoses)

\* the poses the generator of the paradigm draws from
GeneratorPool ==
    CASE mode = "trial" -> IF enabledPoses = {} THEN Elements(POSE_NAMES) ELSE enabledPoses
      [] OTHER -> IF enabledPoses \ {"neutral"} = {}
                  THEN Elements(POSE_NAMES) \ {"neutral"} ELSE enabledPoses \ {"neutral"}

\* C17: for a pool of at least two poses no sequence of the block-shuffling
\* generator (trial-based) or of the nearest-neighbour walk (continuous) has
\* two identical consecutive entries, also across block boundaries
C17_NoImmediateRepeat ==
    (/\ mode \in {"trial", "continuous"}
     /\ sequence # <<>>
     /\ Cardinality(GeneratorPool) >= 2) =>
        \A i \in 1..(Len(sequence) - 1) : sequence[i] # sequence[i + 1]

\* a sequence of three entries over a pool of two poses: the third entry is
\* the head of a second block, and it is the pose the first block began with
C17_Witness ==
    /\ mode = "trial"
    /\ Cardinality(enabledPoses) = 2
    /\ Len(sequence) = 3
    /\ sequence[3] = sequence[1]

\* C18: nearest-neighbour walk: for every numPoses >= 1 and every allowed
\* pool, the empty one and those of a single pose included,
\* generatePoseSequence returns exactly numPoses entries, the first is the
\* start pose, every entry is a pose of the pool or the start pose (never
\* undefined), an empty candidate pool gives numPoses copies of the start
\* pose, and numPoses = 1 gives [startPose]
C18_WalkEntries ==
    (mode = "continuous" /\ sequence # <<>>) =>
        /\ Len(sequence) = settings.numTargets
        /\ sequence[1] = "neutral"
        /\ \A i \in DOMAIN sequence : sequence[i] \in enabledPoses \cup {"neutral"}
        /\ enabledPoses \ {"neutral"} = {} =>
              \A i \in DOMAIN sequence : sequence[i] = "neutral"
        /\ settings.numTargets = 1 => sequence = <<"neutral">>

\* the same for the candidate pools that are empty or hold two poses or more
C18_WalkEntriesOfSeveral ==
    (mode = "continuous" /\ sequence # <<>> /\ Cardinality(enabledPoses \ {"neutral"}) # 1) =>
        /\ Len(sequence) = settings.numTargets
        /\ sequence[1] = "neutral"
        /\ \A i \in DOMAIN sequence : sequence[i] \in enabledPoses \cup {"neutral"}
        /\ enabledPoses \ {"neutral"} = {} =>
              \A i \in DOMAIN sequence : sequence[i] = "neutral"
        /\ settings.numTargets = 1 => sequence = <<"neutral">>

\* C19: periodic paradigm: the trial sequence has exactly numTrials entries,
\* each one an enabled pose other than 'neutral' (or a pose of the library
\* other than 'neutral' when no such pose is enabled); 'neutral' is never an
\* entry, whatever is enabled
C19_PeriodicSequence ==
    (mode = "periodic" /\ sequence # <<>>) =>
        /\ Len(sequence) = settings.numTrials
        /\ \A i \in DOMAIN sequence : sequence[i] \in GeneratorPool /\ sequence[i] # "neutral"

\* 'neutral' is enabled along with two other poses, and a sequence of three
\* trials repeats a pose
C19_Witness ==
    /\ mode = "periodic"
    /\ "neutral" \in enabledPoses /\ Cardinality(enabledPoses) = 3
    /\ Len(sequence) = 3
    /\ sequence[1] = sequence[2] /\ sequence[3] # sequence[1]

\* the number of entries asked for
RequestedLength == IF mode = "periodic" THEN settings.numTrials ELSE settings.numTargets

\* the entries that are drawn: all of them, but for the start pose in front
\* of the walk of the continuous component
DrawnEntries == IF mode = "continuous" THEN DOMAIN sequence \ {1} ELSE DOMAIN sequence

\* C20 as stated: with an empty enabled set every paradigm draws from the
\* library without 'neutral', generation does not fail, and the sequence has
\* the requested length
C20_FallbackWithoutNeutral ==
    enabledPoses = {} =>
        /\ sequence = <<>> => InitialSequences(mode, settings, enabledPoses) # {}
        /\ sequence # <<>> =>
              /\ Len(sequence) = RequestedLength
              /\ \A i \in DrawnEntries : sequence[i] \in Elements(POSE_NAMES) \ {"neutral"}

\* C20: with an empty enabled set the continuous and the periodic paradigm
\* draw from the library without 'neutral' and the trial-based paradigm from
\* the whole library, 'neutral' included; generation does not fail and the
\* sequence has the requested length
C20_EmptySetFallback ==
    enabledPoses = {} =>
        /\ sequence = <<>> => InitialSequences(mode, settings, enabledPoses) # {}
        /\ sequence # <<>> =>
              /\ Len(sequence) = RequestedLength
              /\ \A i \in DrawnEntries :
                    /\ sequence[i] \in Elements(POSE_NAMES)
                    /\ mode # "trial" => sequence[i] # "neutral"

\* nothing is enabled and the trial-based sequence of three holds 'neutral'
C20_Witness ==
    /\ mode = "trial"
    /\ enabledPoses = {}
    /\ Len(sequence) = 3
    /\ sequence[2] = "neutral"

(***************************************************************************)
(* C21..C30.                                                               *)
(***************************************************************************)
\* C21: every text entered for a duration, frequency, trial count or log rate
\* that is empty, non-numeric, zero or negative is replaced by the default,
\* so the settings a session runs with have strictly positive durations,
\* frequency, trial count and log rate
C21_SettingsPositive ==
    sessionStarted => \A field \in NumberFields(mode) : settings[field] > 0

\* C22: once a session is started its stimulus sequence is changed by no
\* frame, pause, resume, completion, settings edit or pose click; it changes
\* only through reset, which discards it and generates a new one
C22_SequenceImmutable ==
    [][sessionStarted =>
          \/ sequence' = sequence
          \/ /\ resetSession
             /\ sequence' \in InitialSequences(mode, settings, enabledPoses)]_vars

\* a session over a selection that was changed before the start has run to
\* its end, with the target hand hidden on the way
C22_Witness ==
    /\ Completed
    /\ "thumbIndexPinch" \in enabledPoses
    /\ ~settings.showTargetHand
    /\ Len(dataLog) > 0

\* C23: during a started session the log is append-only: a frame only appends
\* at the end, pause, resume and completion leave every logged record as it
\* is, and only reset (or the first start of a session) clears the log
C23_LogAppendOnly ==
    [][dataLog' # dataLog =>
          \/ /\ Tick
             /\ Len(dataLog') = Len(dataLog) + 1
             /\ \A i \in DOMAIN dataLog : dataLog'[i] = dataLog[i]
          \/ resetSession /\ dataLog' = <<>>
          \/ ~sessionStarted /\ startSession /\ dataLog' = <<>>]_vars

\* a session resumed after a pause, or restarted after its completion, goes
\* on with the records logged before in its log
C23_Witness ==
    /\ isRunning /\ ~isPaused
    /\ lastTimestamp # Null
    /\ Len(dataLog) >= 2
    /\ dataLog[1].timestamp < sessionStartTime

(***************************************************************************)
(* C24..C30.                                                               *)
(***************************************************************************)
\* the interval callback that finds the countdown at or below zero and
\* schedules advancePhase
PhaseEndingTick == intervalTick /\ ~isAdvancing /\ isAdvancing'

\* the ticks of the current phase made so far: every tick lowers the tenths
\* of timeLeft by one, from ten per second of the phase's duration
TicksInPhase == 10 * PHASE_DURATIONS[phase] - timeLeft[1]

\* the phases of ClassificationMode follow one another as rest,
\* cue, imagery, rest, ..., a reset apart.
C24_PhaseOrder ==
    [][phase' # phase =>
        \/ resetSessionClassification
        \/ /\ advancePhase
           /\ <<phase, phase'>> \in {<<"rest", "cue">>, <<"cue", "imagery">>, <<"imagery", "rest">>}]_vars

\* C24: in ClassificationMode every phase ends on the tick that completes
\* its configured duration (50 ticks of rest, 10 of cue, 30 of imagery), the
\* phases follow one another as rest, cue, imagery, the trial counter moves
\* by one after each imagery phase, and the imagery phase of the last trial
\* completes the session.
C24_ClassificationTrial ==
    [][/\ PhaseEndingTick => TicksInPhase + 1 = 10 * PHASE_DURATIONS[phase]
       /\ phase' # phase =>
            \/ resetSessionClassification
            \/ /\ advancePhase
               /\ <<phase, phase'>> \in {<<"rest", "cue">>, <<"cue", "imagery">>, <<"imagery", "rest">>}
       /\ trialIndex' # trialIndex =>
            \/ resetSessionClassification
            \/ advancePhase /\ phase = "imagery" /\ trialIndex' = trialIndex + 1
       /\ (advancePhase /\ phase = "imagery") =>
            IF trialIndex = Len(sequence) - 1
            THEN ~isRunning' /\ alerts' = alerts + 1 /\ trialIndex' = trialIndex
            ELSE isRunning' = isRunning /\ trialIndex' = trialIndex + 1 /\ phase' = "rest"]_vars

\* the ticks the phases are seen to take: 51 of rest, 11 of cue, 30 of imagery
C24_TicksTaken ==
    [][PhaseEndingTick =>
        TicksInPhase + 1 = CASE phase = "rest" -> 51 [] phase = "cue" -> 11 [] OTHER -> 30]_vars

\* C25: for two library poses A and B and each of the three curves,
\* interpolatePoses(A, B, 0, curve) is A and interpolatePoses(A, B, 1, curve)
\* is B, angle for angle.
C25_Endpoints ==
    \A interpolationType \in InterpolationTypes :
        /\ interpolatePoses(previousPose, targetJointAngles, <<0, 1>>, interpolationType) = previousPose
        /\ interpolatePoses(previousPose, targetJointAngles, <<1, 1>>, interpolationType) = targetJointAngles

\* what holds of the endpoints: at 0 the result is A, and at 1 every angle is
\* within two units in the last place of B's
C25_EndpointsUpToRounding ==
    \A interpolationType \in InterpolationTypes :
        /\ interpolatePoses(previousPose, targetJointAngles, <<0, 1>>, interpolationType) = previousPose
        /\ PoseWithin(interpolatePoses(previousPose, targetJointAngles, <<1, 1>>, interpolationType),
                      targetJointAngles, 2)

\* a frame has appended a record to the log
RecordLogged == Tick /\ Len(dataLog') = Len(dataLog) + 1

\* C26 as stated: the record logged on a tick carries the phase and the
\* current pose in force after that tick's phase-transition evaluation and
\* pose recomputation.
C26_RecordAfterTransition ==
    [][RecordLogged =>
          /\ Last(dataLog').phase = phase'
          /\ Last(dataLog').current = poseToLabeledObject(currentJointAngles')]_vars

\* C26: within every tick the pose is recomputed, then the sample is logged,
\* then the phase transition is evaluated: the record logged on a tick
\* carries the phase in force before that tick's transition evaluation and
\* the pose recomputed on that tick, which is the current pose after the tick
\* unless the tick's transition has replaced it.
C26_RecordBeforeTransition ==
    [][RecordLogged =>
          /\ Last(dataLog').phase = phase
          /\ phase' = phase =>
                Last(dataLog').current = poseToLabeledObject(currentJointAngles')]_vars

\* a record logged on the tick of a phase transition: it carries the phase
\* that has just ended
C26_Witness ==
    /\ dataLog # <<>>
    /\ Last(dataLog).timestamp = lastTimestamp
    /\ timeInPhaseRef = 0
    /\ Last(dataLog).phase # phase
    /\ isRunning /\ ~isPaused

PhaseTransition == Tick /\ phase' # phase

\* C28: the time in phase, in the ref the frame callback accumulates and in
\* the state it publishes, is never negative, is 0 right after every phase
\* transition, and does not decrease between two phase transitions of a
\* session, whatever ticks, pauses, resumes or setting changes occur.
C28_TimeInPhase ==
    [][/\ timeInPhaseRef' >= 0 /\ timeInPhase' >= 0
       /\ PhaseTransition => (timeInPhaseRef' = 0 /\ timeInPhase' = 0)
       /\ (~PhaseTransition /\ ~resetSession) =>
             (timeInPhaseRef' >= timeInPhaseRef /\ timeInPhase' >= timeInPhase)]_vars

\* what holds: the time in phase is never negative, is 0 right after every
\* phase transition, and does not decrease on a tick that finds the ref as
\* the tick before left it; the start/stop effect sets the ref back to 0
C28_TimeInPhaseOfTicks ==
    [][/\ timeInPhaseRef' >= 0 /\ timeInPhase' >= 0
       /\ PhaseTransition => (timeInPhaseRef' = 0 /\ timeInPhase' = 0)
       /\ (~PhaseTransition /\ Tick /\ timeInPhaseRef = timeInPhase) =>
             (timeInPhaseRef' >= timeInPhaseRef /\ timeInPhase' >= timeInPhase)]_vars

\* the step on which phase p of the current trial completes: a tick that
\* finds the phase expired, or advancePhase in ClassificationMode
PhaseCompletes(p) ==
    /\ phase = p
    /\ IF mode = "classification" THEN advancePhase
       ELSE Tick /\ (phase' # phase \/ alerts' # alerts)

\* the phase whose completion moves the session to the next sequence entry
AdvancingPhase(m) == IF m = "continuous" THEN "rest" ELSE Last(PhaseOrder(m))

\* C29 as stated: trialIndex is advanced exactly when the last phase of the
\* paradigm's ordering completes (transition, returnCue, active, imagery),
\* and the session terminates instead when no further entry exists.
C29_AdvanceAfterLastPhase ==
    [][/\ trialIndex' > trialIndex => PhaseCompletes(Last(PhaseOrder(mode)))
       /\ PhaseCompletes(Last(PhaseOrder(mode))) =>
             IF trialIndex + 1 < Len(sequence)
             THEN trialIndex' = trialIndex + 1 /\ alerts' = alerts
             ELSE trialIndex' = trialIndex /\ alerts' = alerts + 1 /\ ~isRunning']_vars

\* C29: trialIndex is advanced exactly when the last phase of the ordering
\* completes (returnCue, active, imagery) or, in the continuous paradigm,
\* when rest completes, and the session terminates instead of advancing when
\* no further sequence entry exists.
C29_AdvanceAfterAdvancingPhase ==
    [][/\ trialIndex' > trialIndex => PhaseCompletes(AdvancingPhase(mode))
       /\ PhaseCompletes(AdvancingPhase(mode)) =>
             IF trialIndex + 1 < Len(sequence)
             THEN trialIndex' = trialIndex + 1 /\ alerts' = alerts
             ELSE trialIndex' = trialIndex /\ alerts' = alerts + 1 /\ ~isRunning']_vars

\* a continuous session completed at the end of the rest on its last entry,
\* which it reached by advancing from the entry before
C29_Witness ==
    /\ mode = "continuous"
    /\ Completed
    /\ alerts = 1
    /\ phase = "rest"
    /\ trialIndex >= 1
    /\ trialIndex = Len(sequence) - 1

\* C30: trialIndex is 0 until the first advance, changes only by steps of +1
\* except that a reset sets it to 0, and while a session is started it
\* satisfies 0 <= trialIndex < length of the sequence, also after the step
\* that completes the session.
C30_TrialIndexInRange ==
    [][/\ trialIndex' # trialIndex =>
             \/ trialIndex' = trialIndex + 1
             \/ /\ trialIndex' = 0
                /\ IF mode = "classification" THEN resetSessionClassification
                   ELSE resetSession
       /\ sessionStarted' => (0 <= trialIndex' /\ trialIndex' < Len(sequence'))
       /\ ~sessionStarted' => trialIndex' = 0]_vars

(***************************************************************************)
(* C31..C40.                                                               *)
(***************************************************************************)
\* the step is a start or a resume
Restart == startSession \/ (pauseSession /\ isPaused)

\* what an initialising tick does: it takes its timestamp as lastTimestamp
\* and as the session start time and applies no delta
InitialisingTick ==
    /\ lastTimestamp' = clock'
    /\ sessionStartTime' = clock'
    /\ timeInPhaseRef' = timeInPhaseRef
    /\ phase' = phase
    /\ trialIndex' = trialIndex
    /\ beatCount' = beatCount
    /\ isMovingToTarget' = isMovingToTarget
    /\ dataLog' = dataLog

\* what a later tick does: it applies the time since the tick before
MeasuringTick ==
    /\ lastTimestamp' = clock'
    /\ sessionStartTime' = sessionStartTime
    /\ (phase' = phase /\ isRunning') => timeInPhaseRef' = timeInPhaseRef + (clock' - lastTimestamp)

C31_FirstTickInitialisesAfterOrigin ==
    [][/\ Restart => lastTimestamp' = Null
       /\ Tick => IF lastTimestamp = Null THEN InitialisingTick ELSE MeasuringTick]_vars

\* a tick whose timestamp is that of the tick before
ZeroDeltaTick == Tick /\ lastTimestamp = clock'

\* C32: a tick whose timestamp equals that of the tick before changes
\* neither the phase, the time in phase, the trial index, the beat count,
\* movingToTarget, the current pose nor the log.
C32_ZeroDeltaTick ==
    [][ZeroDeltaTick =>
          /\ UNCHANGED <<phase, timeInPhase, timeInPhaseRef, trialIndex, beatCount,
                         isMovingToTarget, dataLog>>
          /\ currentJointAngles' = currentJointAngles]_vars

\* what holds: such a tick changes none of these but the pose, which it
\* leaves within two units in the last place
C32_ZeroDeltaTickUpToRounding ==
    [][ZeroDeltaTick =>
          /\ UNCHANGED <<phase, timeInPhase, timeInPhaseRef, trialIndex, beatCount,
                         isMovingToTarget, dataLog>>
          /\ PoseWithin(currentJointAngles', currentJointAngles, 2)]_vars

\* a tick of the periodic active phase on which a beat fires
Beat == Tick /\ mode = "periodic" /\ phase = "active" /\ lastTimestamp # Null /\ lastBeatTime' = clock' /\ lastBeatTime # clock'

\* C33: in the periodic paradigm a beat that leaves the phase running
\* toggles movingToTarget, adds one to beatCount and takes the pose held
\* before it as the interpolation start pose; a tick that enters the active
\* phase or starts a new trial leaves beatCount 0 and movingToTarget false;
\* in every state movingToTarget is true exactly when beatCount is odd, and
\* in prep beatCount is 0 and movingToTarget false.
C33_BeatParity ==
    [][mode = "periodic" =>
          /\ (Beat /\ phase' = "active" /\ isRunning') =>
                /\ isMovingToTarget' = ~isMovingToTarget
                /\ beatCount' = beatCount + 1
                /\ transitionStartPose' = currentJointAngles
          /\ (Tick /\ phase' # phase) => (beatCount' = 0 /\ ~isMovingToTarget')
          /\ isMovingToTarget' <=> (beatCount' % 2 = 1)
          /\ phase' = "prep" => (beatCount' = 0 /\ ~isMovingToTarget')]_vars

\* an active phase after its second beat: the hand is on its way back
C33_Witness ==
    /\ mode = "periodic"
    /\ phase = "active"
    /\ isRunning
    /\ beatCount = 2
    /\ ~isMovingToTarget

\* the place of pose p among the candidates, counted from 0
PositionOf(p, candidates) == (CHOOSE i \in 1..Len(candidates) : candidates[i] = p) - 1

\* entry i of a walk over poseNames follows the selection rule
FollowsSelectionRule(seq, i, poseNames, occasionalLargeJump) ==
    LET candidates == SortByDistance(seq[i - 1], Without(poseNames, seq[i - 1]))
        k == Len(candidates)
    IN  /\ seq[i] \in Elements(candidates)
        /\ LET position == PositionOf(seq[i], candidates)
           IN  \/ position < Max(3, (4 * k) \div 10)
               \/ occasionalLargeJump /\ position >= (6 * k) \div 10

\* C34: every entry of the walk after the first is a candidate (a pose of
\* the pool other than the entry before it) that is among the nearest
\* max(3, floor(0.4 k)) of the k candidates sorted by distance from the entry
\* before it, or, only when occasionalLargeJump is set, among those at the
\* sorted positions from floor(0.6 k) on.
C34_SelectionRule ==
    \A i \in 2..Len(sequence) :
        FollowsSelectionRule(sequence, i, Without(EnabledOf(enabledPoses), settings.startPose),
                             settings.occasionalLargeJump)

\* the same for the pools that leave a candidate at every step
C34_SelectionRuleOfSeveral ==
    Cardinality(enabledPoses \ {settings.startPose}) >= 2 =>
        \A i \in 2..Len(sequence) :
            FollowsSelectionRule(sequence, i, Without(EnabledOf(enabledPoses), settings.startPose),
                                 settings.occasionalLargeJump)

\* C35: switching the show-target-hand option while a session is running
\* changes neither the phase, the time in phase (published or accumulated),
\* the time of the last beat, beatCount, trialIndex nor the session start
\* time.
C35_DisplayToggleKeepsTiming ==
    [][(toggleShowTargetHand /\ isRunning /\ ~isPaused) =>
          UNCHANGED <<phase, timeInPhase, timeInPhaseRef, lastBeatTime, beatCount, trialIndex,
                      sessionStartTime>>]_vars

\* what holds: the option leaves the published state alone and, while the
\* session is paused or not running, the refs as well
C35_DisplayToggleKeepsState ==
    [][toggleShowTargetHand =>
          /\ UNCHANGED <<phase, timeInPhase, beatCount, trialIndex, sessionStartTime>>
          /\ ~(isRunning /\ ~isPaused) => UNCHANGED <<timeInPhaseRef, lastBeatTime, lastTimestamp>>]_vars

\* C36: in the log of a session the session-relative time of the records is
\* never negative and never decreases from one record to the next, and the
\* absolute timestamps increase strictly.
C36_SessionClock ==
    \A i \in 1..Len(dataLog) :
        /\ dataLog[i].sessionTime >= 0
        /\ i > 1 => /\ dataLog[i].sessionTime >= dataLog[i - 1].sessionTime
                    /\ dataLog[i].timestamp > dataLog[i - 1].timestamp

\* what holds of the log: session times are never negative and the
\* absolute timestamps increase strictly
C36_Timestamps ==
    \A i \in 1..Len(dataLog) :
        /\ dataLog[i].sessionTime >= 0
        /\ i > 1 => dataLog[i].timestamp > dataLog[i - 1].timestamp

\* C37: a start of a session that is not started -- after a reset from
\* whatever state, as after construction -- leaves the engine at trialIndex 0,
\* in the first phase of the ordering with timeInPhase 0 (published and
\* accumulated), the neutral current pose, beatCount 0, movingToTarget false,
\* an empty log, no timestamps remembered, running and not paused.
C37_ResetThenStart ==
    [][firstStart =>
          /\ trialIndex' = 0
          /\ phase' = PhaseOrder(mode)[1]
          /\ timeInPhase' = 0
          /\ timeInPhaseRef' = 0
          /\ currentJointAngles' = neutralPose
          /\ beatCount' = 0
          /\ ~isMovingToTarget'
          /\ dataLog' = <<>>
          /\ lastTimestamp' = Null
          /\ sessionStartTime' = Null
          /\ isRunning' /\ ~isPaused']_vars

\* a session started again after a reset of a session that had completed
\* or had run into a beat
C37_Witness ==
    /\ isRunning /\ ~isPaused
    /\ sessionStartTime = Null
    /\ alerts > 0 \/ transitionStartTime > 0

\* the session is paused or not running
Halted == ~(isRunning /\ ~isPaused)

\* C38: in ClassificationMode, while the session is paused or not running,
\* phase, trial counter and time left change only by a reset, which leaves
\* trial 0, phase rest and 5 s, whatever the timer and the deferred
\* advancePhase call do.
C38_FrozenWhileHalted ==
    [][(mode = "classification" /\ Halted) =>
          \/ UNCHANGED <<phase, trialIndex, timeLeft>>
          \/ /\ resetSessionClassification
             /\ trialIndex' = 0 /\ phase' = "rest" /\ timeLeft' = Seconds(5)]_vars

\* what holds: the interval never fires while the session is paused or not
\* running, and with no advancePhase call pending nothing but a reset changes
\* phase, trial counter or time left
C38_FrozenUnlessPending ==
    [][(mode = "classification" /\ Halted) =>
          /\ ~intervalRef
          /\ advancePending = 0 =>
                \/ UNCHANGED <<phase, trialIndex, timeLeft>>
                \/ /\ resetSessionClassification
                   /\ trialIndex' = 0 /\ phase' = "rest" /\ timeLeft' = Seconds(5)]_vars

\* the interval callback that finds the time left used up and defers the
\* advancePhase call
Expiry == intervalTick /\ advancePending' = advancePending + 1

\* a step on which the phase or the trial advances
PhaseAdvance == advancePhase /\ (phase' # phase \/ trialIndex' # trialIndex)

\* C39: in ClassificationMode an expiry of the phase timer leaves exactly
\* one advancePhase call pending, interval ticks that run before that call
\* neither defer another nor change anything, the call advances the phase
\* once (or completes the session after the last trial), and the phase
\* advances on no other step.
C39_OneAdvancePerExpiry ==
    [][/\ advancePending' <= 1
       /\ Expiry => (isAdvancing' /\ timeLeft' = Seconds(0) /\ phase' = phase)
       /\ (intervalTick /\ advancePending > 0 /\ isAdvancing) => UNCHANGED vars
       /\ advancePhase => (PhaseAdvance \/ (alerts' = alerts + 1 /\ ~isRunning'))
       /\ (phase' # phase \/ trialIndex' # trialIndex) =>
             (PhaseAdvance \/ resetSessionClassification)]_vars

\* the deferred call is pending after an expiry in the cue phase of the
\* second trial: the interval can fire again before the call runs
C39_Witness ==
    /\ mode = "classification"
    /\ isRunning /\ ~isPaused /\ intervalRef
    /\ trialIndex = 1
    /\ phase = "cue"
    /\ timeLeft = Seconds(0)
    /\ advancePending = 1 /\ isAdvancing

====
